---- MODULE Spec2Model ----
(***************************************************************************)
(* A model of the iso8583-lite codec engine: the bitmap (pkg/core), the    *)
(* stateless field locator (pkg/parser) and the Message reader (pkg/core). *)
(*                                                                         *)
(* Conventions.  A byte is a number in 0..255 and a buffer is a sequence   *)
(* of bytes; Go's 0-based index i is index i+1 here, and the Go slice      *)
(* b[lo:hi] is Slice(b, lo, hi).  A uint64 word is the set of the indices  *)
(* (0 = least significant .. 63) of its bits that are 1.  A Go pointer     *)
(* that may be nil is a sequence of length 0 (nil) or 1.                   *)
(***************************************************************************)
EXTENDS Integers, Sequences, FiniteSets, TLC

VARIABLES
    bm,        \* *Bitmap under test: Nil or <<[primary, secondary, extended]>>
    bmData,    \* the bytes handed to the last NewBitmap
    bmRead,    \* bytesRead returned by the last NewBitmap
    bmErr,     \* error returned by the last NewBitmap
    call,      \* the last bitmap operation and its argument
    buf,       \* Message.buf
    mspec,     \* Message.spec.Fields
    mti,       \* Message.mti
    bitmap,    \* Message.bitmap (Nil until a Parse gets past NewBitmap)
    cursors,   \* Message.cursors
    parseRes,  \* what the last Message.Parse returned (NotCalled before)
    valRes,    \* the last Message.Validate: its argument and what it did
    reparses,  \* the number of Parse calls made after the first one
    pfBuf,     \* Parser.ParseField: buf argument
    pfSpec,    \* Parser.ParseField: p.spec.Fields
    pfNum,     \* Parser.ParseField: fieldNum argument
    pfOff,     \* Parser.ParseField: offset argument
    pfRes,     \* Parser.ParseField: (Cursor, error) returned
    fld,       \* *Field under test: Nil before it is built, or <<Field>>
    sub,       \* the last Subfield call: Nil, or <<[num, res]>>
    tlvIn,     \* the bytes handed to TLV.Encode and TLV.Decode
    tlvEnc,    \* what TLV.Encode returned: Nil, or <<[out, err]>>
    tlvDec,    \* what TLV.Decode returned: Nil, or <<[out, read, err]>>
    bcdIn,     \* the bytes handed to BCD.Encode and BCD.Decode
    bcdEnc,    \* what BCD.Encode(bcdIn) returned: Nil, or <<[out, err]>>
    bcdDec,    \* what BCD.Decode(bcdIn) returned: Nil, or <<[out, read, err]>>
    bcdRound,  \* what BCD.Decode of Encode's output returned, likewise
    cvList,    \* CompositeValidator.validators, each by what it returns
    cvRes,     \* CompositeValidator.Validate: Nil, or <<[calls, err]>>
    lnHas,     \* LuhnCheckRule: msg.HasField(fieldNum)
    lnNum,     \* LuhnCheckRule: msg.Field(fieldNum).String()
    lnRes,     \* what LuhnCheckRule.Check returned ("not called" before)
    fmtMsg,    \* the parsed message handed to FormatValidator.Validate
    fmtRes,    \* what FormatValidator.Validate returned ("not called" before)
    rd         \* the readers of a parsed message: one record per thread

bmVars == <<bm, bmData, bmRead, bmErr, call>>
msgVars == <<buf, mspec, mti, bitmap, cursors, parseRes, valRes, reparses>>
pfVars == <<pfBuf, pfSpec, pfNum, pfOff, pfRes>>
accVars == <<fld, sub>>
tlvVars == <<tlvIn, tlvEnc, tlvDec>>
bcdVars == <<bcdIn, bcdEnc, bcdDec, bcdRound>>
ruleVars == <<cvList, cvRes, lnHas, lnNum, lnRes, fmtMsg, fmtRes>>
restVars == <<bcdVars, ruleVars, rd>>
vars == <<bm, bmData, bmRead, bmErr, call, buf, mspec, mti, bitmap,
          cursors, parseRes, valRes, reparses, pfBuf, pfSpec, pfNum, pfOff,
          pfRes, fld, sub, tlvIn, tlvEnc, tlvDec, bcdIn, bcdEnc, bcdDec,
          bcdRound, cvList, cvRes, lnHas, lnNum, lnRes, fmtMsg, fmtRes, rd>>

Nil == <<>>

Slice(b, lo, hi) == SubSeq(b, lo + 1, hi)

\* 1 << j for a bit j of a byte
Pow2(j) == <<1, 2, 4, 8, 16, 32, 64, 128>>[j + 1]

BitOf(byte, j) == (byte \div Pow2(j)) % 2 = 1

(***************************************************************************)
(* Bitmap (pkg/core).                                                      *)
(***************************************************************************)
primaryBitmapLength == 8
secondaryBitmapLength == 16
primaryBitmapCapacity == 64
secondaryBitmapCapacity == 128

\* binary.BigEndian.Uint64: byte 0 carries bits 63..56, byte 7 bits 7..0.
Uint64(d) == {k \in 0..63 : BitOf(d[8 - (k \div 8)], k % 8)}

RECURSIVE ByteOf(_, _, _)
ByteOf(w, base, j) ==
    IF j > 7 THEN 0
    ELSE (IF base + j \in w THEN Pow2(j) ELSE 0) + ByteOf(w, base, j + 1)

\* PutUint64 in little-endian byte order
PutUint64LE(w) == [i \in 1..8 |-> ByteOf(w, 8 * (i - 1), 0)]

\* binary.BigEndian.PutUint64 into an 8-byte slice.
PutUint64(w) == [i \in 1..8 |-> ByteOf(w, 8 * (8 - i), 0)]

IsSet(b, fieldNum) ==
    IF fieldNum < 1 \/ fieldNum > secondaryBitmapCapacity THEN FALSE
    ELSE IF fieldNum <= primaryBitmapCapacity
         THEN (primaryBitmapCapacity - fieldNum) \in b.primary
         ELSE IF ~b.extended THEN FALSE
              ELSE (secondaryBitmapCapacity - fieldNum) \in b.secondary

NewBitmap(data) ==
    IF Len(data) < primaryBitmapLength
    THEN [bm |-> Nil, n |-> 0, err |-> "ErrInvalidBitmap"]
    ELSE LET b0 == [primary |-> Uint64(Slice(data, 0, primaryBitmapLength)),
                    secondary |-> {}, extended |-> FALSE]
         IN IF IsSet(b0, 1)
            THEN IF Len(data) < secondaryBitmapLength
                 THEN [bm |-> Nil, n |-> 0, err |-> "ErrInvalidBitmap"]
                 ELSE [bm |-> <<[b0 EXCEPT
                                   !.secondary = Uint64(Slice(data, primaryBitmapLength,
                                                              secondaryBitmapLength)),
                                   !.extended = TRUE]>>,
                       n |-> secondaryBitmapLength, err |-> "nil"]
            ELSE [bm |-> <<b0>>, n |-> primaryBitmapLength, err |-> "nil"]

\* Set without the b.Set(1) that a secondary field forces
SetNoBit1(b, fieldNum) ==
    IF fieldNum < 1 \/ fieldNum > secondaryBitmapCapacity THEN b
    ELSE IF fieldNum <= primaryBitmapCapacity
         THEN [b EXCEPT !.primary = @ \cup {primaryBitmapCapacity - fieldNum},
                        !.extended = (@ \/ fieldNum = 1)]
         ELSE [b EXCEPT !.secondary = @ \cup {secondaryBitmapCapacity - fieldNum},
                        !.extended = TRUE]

RECURSIVE Set(_, _)
Set(b, fieldNum) ==
    IF fieldNum < 1 \/ fieldNum > secondaryBitmapCapacity THEN b
    ELSE LET b1 == IF fieldNum = 1 THEN [b EXCEPT !.extended = TRUE] ELSE b
         IN IF fieldNum <= primaryBitmapCapacity
            THEN [b1 EXCEPT !.primary = @ \cup {primaryBitmapCapacity - fieldNum}]
            ELSE LET b2 == Set([b1 EXCEPT !.extended = TRUE], 1)
                 IN [b2 EXCEPT !.secondary = @ \cup {secondaryBitmapCapacity - fieldNum}]

\* Unset that drops bit 1 with the last secondary field
UnsetAutoClear(b, fieldNum) ==
    IF fieldNum < 1 \/ fieldNum > secondaryBitmapCapacity THEN b
    ELSE IF fieldNum <= primaryBitmapCapacity
         THEN [b EXCEPT !.primary = @ \ {primaryBitmapCapacity - fieldNum}]
         ELSE LET s2 == b.secondary \ {secondaryBitmapCapacity - fieldNum}
              IN [b EXCEPT !.secondary = s2,
                           !.primary = IF s2 = {} THEN @ \ {63} ELSE @]

Unset(b, fieldNum) ==
    IF fieldNum < 1 \/ fieldNum > secondaryBitmapCapacity THEN b
    ELSE IF fieldNum <= primaryBitmapCapacity
         THEN [b EXCEPT !.primary = @ \ {primaryBitmapCapacity - fieldNum}]
         ELSE [b EXCEPT !.secondary = @ \ {secondaryBitmapCapacity - fieldNum}]

Bytes(b) ==
    IF ~b.extended THEN PutUint64(b.primary)
    ELSE PutUint64(b.primary) \o PutUint64(b.secondary)

RECURSIVE CollectSet(_, _, _)
\* the loop "for i := lo; i <= hi; i++ { if b.IsSet(i) { append } }"
CollectSet(b, lo, hi) ==
    IF lo > hi THEN <<>>
    ELSE (IF IsSet(b, lo) THEN <<lo>> ELSE <<>>) \o CollectSet(b, lo + 1, hi)

\* PresentFields whose first loop stops one field early
PresentFieldsShort(b) ==
    CollectSet(b, 1, primaryBitmapCapacity - 1)
    \o (IF b.extended THEN CollectSet(b, 65, secondaryBitmapCapacity) ELSE <<>>)

PresentFields(b) ==
    CollectSet(b, 1, primaryBitmapCapacity)
    \o (IF b.extended THEN CollectSet(b, 65, secondaryBitmapCapacity) ELSE <<>>)

IsExtended(b) == b.extended

(***************************************************************************)
(* Specification model (pkg/spec) and field locator (pkg/parser).          *)
(***************************************************************************)
\* FieldType.LengthIndicatorDigits
LengthIndicatorDigits(ft) ==
    CASE ft = "L" -> 1
      [] ft = "LL" -> 2
      [] ft = "LLL" -> 3
      [] OTHER -> 0

decimalBase == 10

RECURSIVE parseIntFrom(_, _, _)
\* the loop of parseInt from the i-th byte on, result being the value so far
parseIntFrom(b, i, result) ==
    IF i > Len(b) THEN [val |-> result, err |-> "nil"]
    ELSE IF b[i] < 48 \/ b[i] > 57 THEN [val |-> 0, err |-> "ErrInvalidDigit"]
         ELSE parseIntFrom(b, i + 1, result * decimalBase + (b[i] - 48))

\* parseInt that skips the bytes that are not digits
parseIntSkipping(b) ==
    parseIntFrom(SelectSeq(b, LAMBDA c : c \in 48..57), 1, 0)

parseInt(b) == parseIntFrom(b, 1, 0)

NoCursor == [Start |-> 0, End |-> 0]

Fail(e) == [cur |-> NoCursor, err |-> e]

Found(s, e) == [cur |-> [Start |-> s, End |-> e], err |-> "nil"]

\* parseFixed rejecting a field that ends exactly at the end of the buffer
parseFixedStrict(b, fieldSpec, offset) ==
    IF offset + fieldSpec.Length >= Len(b) THEN Fail("ErrOffsetExceedsBufferLen")
    ELSE Found(offset, offset + fieldSpec.Length)

parseFixed(b, fieldSpec, offset) ==
    IF offset + fieldSpec.Length > Len(b) THEN Fail("ErrOffsetExceedsBufferLen")
    ELSE Found(offset, offset + fieldSpec.Length)

\* parseVariable rejecting a declared length equal to MaxLength
parseVariableStrictMax(b, fieldSpec, offset) ==
    LET lenDigits == LengthIndicatorDigits(fieldSpec.Type)
    IN IF offset + lenDigits > Len(b) THEN Fail("ErrInsufficientLengthIndicator")
       ELSE LET r == parseInt(Slice(b, offset, offset + lenDigits))
                dataStart == offset + lenDigits
                dataEnd == dataStart + r.val
            IN IF r.err # "nil" THEN Fail(r.err)
               ELSE IF r.val >= fieldSpec.MaxLength THEN Fail("ErrFieldLengthExceedsMax")
               ELSE IF dataEnd > Len(b) THEN Fail("ErrOffsetExceedsBufferLen")
               ELSE Found(dataStart, dataEnd)

parseVariable(b, fieldSpec, offset) ==
    LET lenDigits == LengthIndicatorDigits(fieldSpec.Type)
    IN IF offset + lenDigits > Len(b) THEN Fail("ErrInsufficientLengthIndicator")
       ELSE LET r == parseInt(Slice(b, offset, offset + lenDigits))
                dataStart == offset + lenDigits
                dataEnd == dataStart + r.val
            IN IF r.err # "nil" THEN Fail(r.err)
               ELSE IF r.val > fieldSpec.MaxLength THEN Fail("ErrFieldLengthExceedsMax")
               ELSE IF dataEnd > Len(b) THEN Fail("ErrOffsetExceedsBufferLen")
               ELSE Found(dataStart, dataEnd)

\* parseBitmap that does not look at the length of the buffer
parseBitmapUnchecked(b, fieldSpec, offset) ==
    Found(offset, offset + fieldSpec.Length)

parseBitmap(b, fieldSpec, offset) ==
    IF offset + fieldSpec.Length > Len(b) THEN Fail("ErrOffsetExceedsBufferLen")
    ELSE Found(offset, offset + fieldSpec.Length)

\* Parser.ParseField, fields being p.spec.Fields
ParseField(fields, b, fieldNum, offset) ==
    IF fieldNum \notin DOMAIN fields THEN Fail("ErrFieldNotDefined")
    ELSE IF offset >= Len(b) THEN Fail("ErrOffsetExceedsBufferLen")
    ELSE LET fieldSpec == fields[fieldNum]
         IN CASE fieldSpec.Type = "Fixed" -> parseFixed(b, fieldSpec, offset)
              [] fieldSpec.Type \in {"L", "LL", "LLL"} -> parseVariable(b, fieldSpec, offset)
              [] fieldSpec.Type = "Bitmap" -> parseBitmap(b, fieldSpec, offset)
              [] OTHER -> Fail("ErrUnsupportedFieldType")

\* Cursor.Extract (pkg/parser): nil unless the cursor is a non-empty range of b
Extract(c, b) ==
    IF c.Start < 0 \/ c.End > Len(b) \/ c.Start >= c.End THEN Nil
    ELSE <<Slice(b, c.Start, c.End)>>

\* NextOffset that does not move past the field
NextOffsetStart(c) == c.Start

NextOffset(c) == c.End

(***************************************************************************)
(* Message (pkg/core).                                                     *)
(***************************************************************************)
mtiLength == 4
minMessageLength == 12

EmptyMap == [f \in {} |-> NoCursor]

NotCalled == [kind |-> "not called", field |-> 0, cause |-> ""]
Ok == [kind |-> "nil", field |-> 0, cause |-> ""]
Err(k) == [kind |-> k, field |-> 0, cause |-> ""]

RECURSIVE isDigitsFrom(_, _)
isDigitsFrom(m, i) ==
    IF i > mtiLength THEN TRUE
    ELSE IF m[i] < 48 \/ m[i] > 57 THEN FALSE
         ELSE isDigitsFrom(m, i + 1)

isValidMTIStructure(m) ==
    IF Len(m) # mtiLength THEN FALSE ELSE isDigitsFrom(m, 1)

RECURSIVE walkFieldsStrict(_, _, _, _, _, _)
RECURSIVE walkFields(_, _, _, _, _, _)
\* the loop of parseAllFields handing the fields outside the spec to ParseField
walkFieldsStrict(fields, b, present, i, offset, cs) ==
    IF i > Len(present) THEN [cursors |-> cs, res |-> Ok]
    ELSE LET fieldNum == present[i]
         IN IF fieldNum = 1 THEN walkFieldsStrict(fields, b, present, i + 1, offset, cs)
            ELSE LET r == ParseField(fields, b, fieldNum, offset)
                 IN IF r.err # "nil"
                    THEN [cursors |-> cs,
                          res |-> [kind |-> "failed to parse field",
                                   field |-> fieldNum, cause |-> r.err]]
                    ELSE walkFieldsStrict(fields, b, present, i + 1, NextOffset(r.cur),
                                    [g \in DOMAIN cs \cup {fieldNum} |->
                                        IF g = fieldNum THEN r.cur ELSE cs[g]])

\* the loop of parseAllFields from the i-th element of PresentFields on
walkFields(fields, b, present, i, offset, cs) ==
    IF i > Len(present) THEN [cursors |-> cs, res |-> Ok]
    ELSE LET fieldNum == present[i]
         IN IF fieldNum = 1 THEN walkFields(fields, b, present, i + 1, offset, cs)
            ELSE IF fieldNum \notin DOMAIN fields
                 THEN walkFields(fields, b, present, i + 1, offset, cs)
            ELSE LET r == ParseField(fields, b, fieldNum, offset)
                 IN IF r.err # "nil"
                    THEN [cursors |-> cs,
                          res |-> [kind |-> "failed to parse field",
                                   field |-> fieldNum, cause |-> r.err]]
                    ELSE walkFields(fields, b, present, i + 1, NextOffset(r.cur),
                                    [g \in DOMAIN cs \cup {fieldNum} |->
                                        IF g = fieldNum THEN r.cur ELSE cs[g]])

\* parseAllFields that always starts after the primary bitmap
parseAllFieldsPrimaryOnly(fields, b, b0, cs) ==
    walkFields(fields, b, PresentFields(b0), 1, 4 + 8, cs)

\* Message.parseAllFields on a message whose bitmap is b0
parseAllFields(fields, b, b0, cs) ==
    LET offset == IF IsExtended(b0) THEN 4 + 16 ELSE 4 + 8
    IN walkFields(fields, b, PresentFields(b0), 1, offset, cs)

\* Parse that checks the message length before the MTI format
ParseOpLengthFirst(fields, b, m, bmp, cs) ==
    IF Len(b) < mtiLength
    THEN [mti |-> m, bitmap |-> bmp, cursors |-> cs, res |-> Err("ErrInvalidMTI")]
    ELSE LET m1 == Slice(b, 0, mtiLength)
         IN IF Len(b) < minMessageLength
            THEN [mti |-> m1, bitmap |-> bmp, cursors |-> cs,
                  res |-> Err("ErrMessageTooShort")]
            ELSE IF ~isValidMTIStructure(m1)
            THEN [mti |-> m1, bitmap |-> bmp, cursors |-> cs,
                  res |-> Err("ErrInvalidMTIFormat")]
            ELSE LET nb == NewBitmap(Slice(b, 4, Len(b)))
                 IN IF nb.err # "nil"
                    THEN [mti |-> m1, bitmap |-> bmp, cursors |-> cs,
                          res |-> [kind |-> "ErrBitmapParseFailed", field |-> 0,
                                   cause |-> nb.err]]
                    ELSE LET w == parseAllFields(fields, b, nb.bm[1], cs)
                         IN [mti |-> m1, bitmap |-> nb.bm, cursors |-> w.cursors,
                             res |-> w.res]

\* Message.Parse: the fields of the message after the call, and the error
ParseOp(fields, b, m, bmp, cs) ==
    IF Len(b) < mtiLength
    THEN [mti |-> m, bitmap |-> bmp, cursors |-> cs, res |-> Err("ErrInvalidMTI")]
    ELSE LET m1 == Slice(b, 0, mtiLength)
         IN IF ~isValidMTIStructure(m1)
            THEN [mti |-> m1, bitmap |-> bmp, cursors |-> cs,
                  res |-> Err("ErrInvalidMTIFormat")]
            ELSE IF Len(b) < minMessageLength
            THEN [mti |-> m1, bitmap |-> bmp, cursors |-> cs,
                  res |-> Err("ErrMessageTooShort")]
            ELSE LET nb == NewBitmap(Slice(b, 4, Len(b)))
                 IN IF nb.err # "nil"
                    THEN [mti |-> m1, bitmap |-> bmp, cursors |-> cs,
                          res |-> [kind |-> "ErrBitmapParseFailed", field |-> 0,
                                   cause |-> nb.err]]
                    ELSE LET w == parseAllFields(fields, b, nb.bm[1], cs)
                         IN [mti |-> m1, bitmap |-> nb.bm, cursors |-> w.cursors,
                             res |-> w.res]

AbsentField == [exists |-> FALSE, data |-> <<>>]

\* MTI that exists whatever m.mti holds
MTIAlwaysExists(m) == [exists |-> TRUE, data |-> m]

\* Message.MTI: NewField([]byte(m.mti), m.mti != "")
MTI(m) == [exists |-> m # <<>>, data |-> m]

\* Message.Field, as the accessor's exists flag and data
Field(fields, b, m, bmp, cs, fieldNum) ==
    IF fieldNum < 0 \/ fieldNum > 128 THEN AbsentField
    ELSE IF fieldNum = 0 THEN MTI(m)
    ELSE IF bmp = Nil \/ ~IsSet(bmp[1], fieldNum) THEN AbsentField
    ELSE IF fieldNum \notin DOMAIN cs THEN AbsentField
    ELSE LET data == Extract(cs[fieldNum], b)
         IN IF data = Nil THEN AbsentField
            ELSE [exists |-> TRUE, data |-> data[1]]

\* Field.Exists and Field.Bytes of an accessor
Exists(f) == f.exists

FieldBytes(f) == IF ~f.exists THEN <<>> ELSE f.data

HasField(bmp, fieldNum) ==
    IF fieldNum = 0 THEN TRUE
    ELSE IF bmp = Nil THEN FALSE
    ELSE IsSet(bmp[1], fieldNum)

MsgPresentFields(bmp) ==
    IF bmp = Nil THEN <<0>> ELSE <<0>> \o PresentFields(bmp[1])

\* Validate as a function of m.bitmap and the validator handed in.  A
\* validator is nil, or a ValidatorFunc that accepts or rejects; invoked
\* records whether its Validate method ran.
ErrNotParsed == "message not parsed, call Parse() first"

NoValidate == [v |-> "none", err |-> "not called", invoked |-> FALSE]

ValidateOp(bmp, v) ==
    IF bmp = Nil THEN [v |-> v, err |-> ErrNotParsed, invoked |-> FALSE]
    ELSE IF v = "nil" THEN [v |-> v, err |-> "nil", invoked |-> FALSE]
    ELSE [v |-> v, err |-> IF v = "accept" THEN "nil" ELSE "rejected",
          invoked |-> TRUE]

RECURSIVE RequiredFieldsCheck(_, _, _)
\* RequiredFieldsRule.Check from the i-th required field on: the error names
\* the first required field for which HasField is false
RequiredFieldsCheck(bmp, fields, i) ==
    IF i > Len(fields) THEN [err |-> "nil", field |-> 0]
    ELSE IF ~HasField(bmp, fields[i])
    THEN [err |-> "ErrMissingRequiredField", field |-> fields[i]]
    ELSE RequiredFieldsCheck(bmp, fields, i + 1)

(***************************************************************************)
(* Field accessor (pkg/core).  A Field is a record; f.spec is Nil or the   *)
(* <<FieldSpec>> it points to, f.parser tells whether the parser pointer   *)
(* is set, f.children is Nil (nil map) or <<map>>.  A string is the        *)
(* sequence of its bytes.                                                  *)
(***************************************************************************)
NewField(data, exists) ==
    [data |-> data, exists |-> exists, spec |-> Nil, parser |-> FALSE,
     children |-> Nil]

NewFieldWithSpec(data, exists, fieldSpec, p) ==
    [data |-> data, exists |-> exists, spec |-> <<fieldSpec>>, parser |-> p,
     children |-> Nil]

\* &Field{exists: false}
ZeroField == NewField(<<>>, FALSE)

String(f) == IF ~f.exists THEN <<>> ELSE f.data

\* "0123456789abcdef"
hextable == <<48, 49, 50, 51, 52, 53, 54, 55, 56, 57, 97, 98, 99, 100, 101, 102>>

RECURSIVE EncodeToString(_)
\* hex.EncodeToString: two lower-case hex digits per byte
EncodeToString(d) ==
    IF d = <<>> THEN <<>>
    ELSE <<hextable[(d[1] \div 16) + 1], hextable[(d[1] % 16) + 1]>>
         \o EncodeToString(Tail(d))

Hex(f) == IF ~f.exists THEN <<>> ELSE EncodeToString(f.data)

RECURSIVE DigitsValue(_, _)
DigitsValue(s, acc) ==
    IF s = <<>> THEN acc ELSE DigitsValue(Tail(s), 10 * acc + (s[1] - 48))

\* strconv.Atoi and strconv.ParseInt(s, 10, 64) on a string too short to
\* overflow: an optional sign, then one or more decimal digits
Atoi(s) ==
    LET signed == s # <<>> /\ s[1] \in {43, 45}
        body == IF signed THEN Tail(s) ELSE s
    IN IF body = <<>> \/ \E i \in 1..Len(body) : body[i] \notin 48..57
       THEN [val |-> 0, err |-> "ErrSyntax"]
       ELSE [val |-> IF signed /\ s[1] = 45 THEN 0 - DigitsValue(body, 0)
                     ELSE DigitsValue(body, 0),
             err |-> "nil"]

IntE(f) ==
    IF ~f.exists THEN [val |-> 0, err |-> "ErrFieldNotPresent"]
    ELSE LET r == Atoi(String(f))
         IN IF r.err # "nil"
            THEN [val |-> 0, err |-> "failed to convert field to int"]
            ELSE r

IntOf(f) == IntE(f).val

Int64E(f) ==
    IF ~f.exists THEN [val |-> 0, err |-> "ErrFieldNotPresent"]
    ELSE LET r == Atoi(String(f))
         IN IF r.err # "nil"
            THEN [val |-> 0, err |-> "failed to convert field to int64"]
            ELSE r

Int64(f) == Int64E(f).val

\* Field.Len
FieldLen(f) == Len(f.data)

\* Field.Subfield: the cached child, or a non-existent accessor; the branch
\* for a child declared in the spec locates nothing
Subfield(f, num) ==
    IF ~f.exists THEN ZeroField
    ELSE IF f.children # Nil /\ num \in DOMAIN f.children[1]
    THEN f.children[1][num]
    ELSE IF f.spec # Nil /\ f.parser /\ Len(f.spec[1].Children) > 0
    THEN IF \E i \in 1..Len(f.spec[1].Children) :
                f.spec[1].Children[i].Number = num
         THEN ZeroField
         ELSE ZeroField
    ELSE ZeroField

\* Field.SetSubfield
SetSubfield(f, num, child) ==
    LET m == IF f.children = Nil THEN [n \in {} |-> ZeroField] ELSE f.children[1]
    IN [f EXCEPT !.children =
            <<[n \in DOMAIN m \cup {num} |-> IF n = num THEN child ELSE m[n]]>>]

HasSubfields(f) ==
    IF f.children = Nil THEN FALSE ELSE Cardinality(DOMAIN f.children[1]) > 0

(***************************************************************************)
(* TLV encoder (pkg/encoding).  A returned slice is a sequence, nil and    *)
(* empty alike.                                                            *)
(***************************************************************************)
tlvTagMultiByteMask == 31
minimalTLVMinLen == 2

\* b & tlvTagMultiByteMask, the mask being the low five bits
MaskTag(b) == b % (tlvTagMultiByteMask + 1)

TLVFail == [tag |-> <<>>, length |-> 0, value |-> <<>>, next |-> 0,
            err |-> "ErrTLVMalformed"]

\* ParseMinimalTLV: the first triplet of data
ParseMinimalTLV(data) ==
    IF Len(data) < minimalTLVMinLen THEN TLVFail
    ELSE LET tagLen == IF MaskTag(data[1]) = tlvTagMultiByteMask THEN 2 ELSE 1
         IN IF tagLen = 2 /\ Len(data) < tagLen + 1 THEN TLVFail
            ELSE IF Len(data) < tagLen + 1 THEN TLVFail
            ELSE LET length == data[tagLen + 1]
                 IN IF Len(data) < tagLen + 1 + length THEN TLVFail
                    ELSE [tag |-> Slice(data, 0, tagLen), length |-> length,
                          value |-> Slice(data, tagLen + 1, tagLen + 1 + length),
                          next |-> tagLen + 1 + length, err |-> "nil"]

\* EncodeMinimalTLV that leaves the length byte out
EncodeMinimalTLVNoLength(tag, value) == tag \o value

\* EncodeMinimalTLV: tag, byte(len(value)), value
EncodeMinimalTLV(tag, value) == tag \o <<Len(value) % 256>> \o value

RECURSIVE tlvLoop(_, _, _)
\* the loop of Encode and Decode from offset read on, out being the output
\* so far
tlvLoop(data, read, out) ==
    IF ~(read < Len(data)) THEN [out |-> out, read |-> read, err |-> "nil"]
    ELSE LET t == ParseMinimalTLV(Slice(data, read, Len(data)))
         IN IF t.err # "nil" THEN [out |-> <<>>, read |-> read, err |-> t.err]
            ELSE tlvLoop(data, read + t.next, out \o EncodeMinimalTLV(t.tag, t.value))

\* tlvEncoder.Encode
TLVEncode(data) ==
    IF Len(data) = 0 THEN [out |-> <<>>, err |-> "nil"]
    ELSE LET r == tlvLoop(data, 0, <<>>) IN [out |-> r.out, err |-> r.err]

\* tlvEncoder.Decode; a failure wraps the parse error as its cause
TLVDecode(data) ==
    IF Len(data) = 0 THEN [out |-> <<>>, read |-> 0, err |-> "nil", cause |-> "nil"]
    ELSE LET r == tlvLoop(data, 0, <<>>)
         IN IF r.err # "nil"
            THEN [out |-> <<>>, read |-> r.read, err |-> "TLV decode error",
                  cause |-> r.err]
            ELSE [out |-> r.out, read |-> r.read, err |-> "nil", cause |-> "nil"]

(***************************************************************************)
(* Inputs.                                                                 *)
(***************************************************************************)
MaxBody == 4      \* longest field area of a generated message
MaxLocLen == 4    \* longest generated buffer handed to ParseField directly
MaxValBody == 1   \* longest field area of a message handed to Validate
MaxReparse == 2   \* most Parse calls after the first on one message
MaxFieldLen == 3  \* longest data slice handed to NewField
MaxTLVLen == 4    \* longest generated input of the TLV encoder

RECURSIVE SeqsUpTo(_, _)
SeqsUpTo(S, n) ==
    IF n = 0 THEN {<<>>}
    ELSE LET P == SeqsUpTo(S, n - 1) IN P \cup {Append(q, x) : q \in P, x \in S}

\* '0', '1', '2' and 'X'
BodyBytes == {48, 49, 50, 88}

FieldSpec(t, l, m) == [Type |-> t, Length |-> l, MaxLength |-> m]

SpecA == (2 :> FieldSpec("L", 0, 2)) @@ (3 :> FieldSpec("Fixed", 2, 0))
         @@ (66 :> FieldSpec("LL", 0, 3)) @@ (67 :> FieldSpec("Fixed", 1, 0))

SpecB == (2 :> FieldSpec("Fixed", 1, 0)) @@ (3 :> FieldSpec("LLL", 0, 1))
         @@ (4 :> FieldSpec("L", 0, 1)) @@ (66 :> FieldSpec("Bitmap", 2, 0))
         @@ (67 :> FieldSpec("Unsupported", 0, 0))

\* the specs of TestParseVariable and TestParseFixed
SpecT == (2 :> FieldSpec("LL", 0, 19)) @@ (4 :> FieldSpec("Fixed", 12, 0))

Specs == {SpecA, SpecB}

\* a nil Validator, a ValidatorFunc returning nil, one returning an error
Validators == {"nil", "accept", "reject"}

\* "0100"
GoodMTI == <<48, 49, 48, 48>>

\* "020A"
BadMTI == <<48, 50, 48, 65>>

WordOf(F, cap) == {cap - n : n \in F}

\* bitmaps as they appear on the wire: primary only, or primary and secondary
WireBitmaps ==
    {PutUint64(WordOf(F, 64)) : F \in SUBSET {2, 3, 4}}
    \cup {PutUint64(WordOf({1} \cup F, 64)) \o PutUint64(WordOf(G, 128)) :
            F \in SUBSET {2}, G \in SUBSET {66, 67}}
    \cup {PutUint64(WordOf({1, 2}, 64)) \o PutUint64(WordOf({65, 67}, 128))}

Prefixes(b) == {SubSeq(b, 1, k) : k \in 0..Len(b)}

MsgBufs ==
    {GoodMTI \o w \o d : w \in WireBitmaps, d \in SeqsUpTo(BodyBytes, MaxBody)}
    \cup Prefixes(GoodMTI \o PutUint64(WordOf({1, 2}, 64))
                  \o PutUint64(WordOf({66}, 128)) \o <<49, 88>>)
    \cup Prefixes(BadMTI \o PutUint64(WordOf({2}, 64)) \o <<49, 88>>)

\* the messages whose Parse and Validate calls are interleaved
LifecycleBufs ==
    {GoodMTI \o w \o d : w \in WireBitmaps, d \in SeqsUpTo(BodyBytes, MaxValBody)}
    \cup Prefixes(GoodMTI \o PutUint64(WordOf({1, 2}, 64))
                  \o PutUint64(WordOf({66}, 128)) \o <<49, 88>>)
    \cup Prefixes(BadMTI \o PutUint64(WordOf({2}, 64)) \o <<49, 88>>)

FirstBytes == {0, 64, 128, 192}
OtherBytes == {0, 1, 128}
OtherPos == {8, 9, 16}
BmLens == {0, 7, 8, 15, 16, 17}

BitmapInputs ==
    {[i \in 1..n |-> IF i = 1 THEN fb ELSE IF i = p THEN v ELSE 0] :
        n \in BmLens, fb \in FirstBytes, p \in OtherPos, v \in OtherBytes}

FieldArgs == {0, 1, 2, 64, 65, 128, 129}

\* "161234567890123456" and "0100"
LLExample == <<49, 54, 49, 50, 51, 52, 53, 54, 55, 56, 57, 48, 49, 50, 51, 52, 53, 54>>
FixedExample == <<48, 49, 48, 48>>

LocBufs == SeqsUpTo(BodyBytes, MaxLocLen) \cup {LLExample, FixedExample}
LocSpecs == {SpecA, SpecB, SpecT}
LocFields == {2, 3, 4, 5, 66, 67}
LocOffsets == 0..(MaxLocLen + 1)

\* '1', '2' and 'A'
AccBytes == {49, 50, 65}

FieldDatas == SeqsUpTo(AccBytes, MaxFieldLen)

ChildSpec(n, t, l, m) == [Number |-> n, Type |-> t, Length |-> l, MaxLength |-> m]

\* a composite field with the ordered children 1 (Fixed 1) and 2 (L, max 2),
\* and a field without children
CompositeSpec == [Children |-> <<ChildSpec(1, "Fixed", 1, 0), ChildSpec(2, "L", 0, 2)>>]
LeafSpec == [Children |-> <<>>]

AccSpecs == {CompositeSpec, LeafSpec}

\* the accessors handed to SetSubfield
ChildFields == {NewField(<<65>>, TRUE), NewField(<<>>, FALSE)}

SetNums == {1, 2}
SubNums == {1, 2, 99}

\* 0x00, 0x01, 0x02, the one-byte tag 0x5A, the two-byte tag lead 0x9F, and
\* 0x81 (high bit set)
TLVBytes == {0, 1, 2, 90, 159, 129}

\* tag 0x5A, length byte 0x80, and 128 bytes after it
LongFormExample == <<90, 128>> \o [i \in 1..128 |-> 0]

TLVInputs == SeqsUpTo(TLVBytes, MaxTLVLen) \cup {LongFormExample}

(***************************************************************************)
(* States and steps.                                                       *)
(***************************************************************************)
IdleBitmap ==
    /\ bm = Nil /\ bmData = <<>> /\ bmRead = 0 /\ bmErr = "nil"
    /\ call = <<"none", 0>>

IdleMessage ==
    /\ buf = <<>> /\ mspec = SpecA /\ mti = <<>> /\ bitmap = Nil
    /\ cursors = EmptyMap /\ parseRes = NotCalled /\ valRes = NoValidate
    /\ reparses = 0

IdleLocator ==
    /\ pfBuf = <<>> /\ pfSpec = SpecA /\ pfNum = 0 /\ pfOff = 0
    /\ pfRes = [cur |-> NoCursor, err |-> "not called"]

IdleAccessor == fld = Nil /\ sub = Nil

IdleTLV == tlvIn = <<>> /\ tlvEnc = Nil /\ tlvDec = Nil

IdleBCD == bcdIn = <<>> /\ bcdEnc = Nil /\ bcdDec = Nil /\ bcdRound = Nil

IdleRules ==
    /\ cvList = <<>> /\ cvRes = Nil
    /\ lnHas = FALSE /\ lnNum = <<>> /\ lnRes = "not called"
    /\ fmtMsg = Nil /\ fmtRes = "not called"

IdleReaders == rd = <<>>

IdleRest == IdleBCD /\ IdleRules /\ IdleReaders

\* bm, n, err := NewBitmap(d), once: the bitmap under test is built here
NewBitmapCall ==
    /\ call[1] = "none"
    /\ \E d \in BitmapInputs :
        LET r == NewBitmap(d)
        IN /\ bm' = r.bm /\ bmData' = d /\ bmRead' = r.n /\ bmErr' = r.err
    /\ call' = <<"NewBitmap", 0>>
    /\ UNCHANGED <<msgVars, pfVars, restVars, accVars, tlvVars>>

\* bm.Set(n)
SetCall ==
    /\ bm # Nil
    /\ \E n \in FieldArgs : bm' = <<Set(bm[1], n)>> /\ call' = <<"Set", n>>
    /\ UNCHANGED <<bmData, bmRead, bmErr, msgVars, pfVars, restVars, accVars, tlvVars>>

\* bm.Unset(n)
UnsetCall ==
    /\ bm # Nil
    /\ \E n \in FieldArgs : bm' = <<Unset(bm[1], n)>> /\ call' = <<"Unset", n>>
    /\ UNCHANGED <<bmData, bmRead, bmErr, msgVars, pfVars, restVars, accVars, tlvVars>>

BitmapInit == IdleBitmap /\ IdleRest /\ IdleMessage /\ IdleLocator /\ IdleAccessor /\ IdleTLV
BitmapNext == NewBitmapCall \/ SetCall \/ UnsetCall
BitmapSpec == BitmapInit /\ [][BitmapNext]_vars

\* m := NewMessage(b, s)
MessageInit ==
    /\ buf \in MsgBufs /\ mspec \in Specs
    /\ mti = <<>> /\ bitmap = Nil /\ cursors = EmptyMap /\ parseRes = NotCalled
    /\ valRes = NoValidate /\ reparses = 0
    /\ IdleBitmap /\ IdleRest /\ IdleLocator /\ IdleAccessor /\ IdleTLV

\* err := m.Parse(), the first call on the message
Parse ==
    /\ parseRes = NotCalled
    /\ \E r \in {ParseOp(mspec, buf, mti, bitmap, cursors)} :
          /\ mti' = r.mti /\ bitmap' = r.bitmap /\ cursors' = r.cursors
          /\ parseRes' = r.res
    /\ UNCHANGED <<buf, mspec, valRes, reparses, bmVars, pfVars, restVars, accVars, tlvVars>>

\* Parse refusing to run on a message it has been called on
ReparseRefused ==
    /\ parseRes # NotCalled /\ reparses < MaxReparse
    /\ parseRes' = Err("already parsed")
    /\ reparses' = reparses + 1
    /\ UNCHANGED <<buf, mspec, mti, bitmap, cursors, valRes, bmVars, pfVars, restVars, accVars, tlvVars>>

\* err := m.Parse(), a further call on the same message and buffer
Reparse ==
    /\ parseRes # NotCalled /\ reparses < MaxReparse
    /\ \E r \in {ParseOp(mspec, buf, mti, bitmap, cursors)} :
          /\ mti' = r.mti /\ bitmap' = r.bitmap /\ cursors' = r.cursors
          /\ parseRes' = r.res
    /\ reparses' = reparses + 1
    /\ UNCHANGED <<buf, mspec, valRes, bmVars, pfVars, restVars, accVars, tlvVars>>

\* err := m.Validate(v)
Validate ==
    /\ \E v \in Validators : valRes' = ValidateOp(bitmap, v)
    /\ UNCHANGED <<buf, mspec, mti, bitmap, cursors, parseRes, reparses, bmVars,
                   pfVars, restVars, accVars, tlvVars>>

MessageNext == Parse
MessageSpec == MessageInit /\ [][MessageNext]_vars

\* m := NewMessage(b, s), for the life cycle of Parse, Parse again, Validate
LifecycleInit ==
    /\ buf \in LifecycleBufs /\ mspec \in Specs
    /\ mti = <<>> /\ bitmap = Nil /\ cursors = EmptyMap /\ parseRes = NotCalled
    /\ valRes = NoValidate /\ reparses = 0
    /\ IdleBitmap /\ IdleRest /\ IdleLocator /\ IdleAccessor /\ IdleTLV

LifecycleNext == Parse \/ Reparse \/ Validate
LifecycleSpec == LifecycleInit /\ [][LifecycleNext]_vars

\* f := NewField(d, e)
NewFieldCall ==
    /\ fld = Nil
    /\ \E d \in FieldDatas, e \in BOOLEAN : fld' = <<NewField(d, e)>>
    /\ UNCHANGED <<sub, bmVars, msgVars, pfVars, restVars, tlvVars>>

\* f := NewFieldWithSpec(d, e, fs, p)
NewFieldWithSpecCall ==
    /\ fld = Nil
    /\ \E d \in FieldDatas, e \in BOOLEAN, fs \in AccSpecs, p \in BOOLEAN :
          fld' = <<NewFieldWithSpec(d, e, fs, p)>>
    /\ UNCHANGED <<sub, bmVars, msgVars, pfVars, restVars, tlvVars>>

\* f.SetSubfield(n, c); the Subfield result on record is of the field as it
\* was, so it is dropped
SetSubfieldCall ==
    /\ fld # Nil
    /\ \E n \in SetNums, c \in ChildFields : fld' = <<SetSubfield(fld[1], n, c)>>
    /\ sub' = Nil
    /\ UNCHANGED <<bmVars, msgVars, pfVars, restVars, tlvVars>>

\* r := f.Subfield(n)
SubfieldCall ==
    /\ fld # Nil
    /\ \E n \in SubNums : sub' = <<[num |-> n, res |-> Subfield(fld[1], n)]>>
    /\ UNCHANGED <<fld, bmVars, msgVars, pfVars, restVars, tlvVars>>

AccessorInit ==
    IdleAccessor /\ IdleBitmap /\ IdleRest /\ IdleMessage /\ IdleLocator /\ IdleTLV

AccessorNext ==
    NewFieldCall \/ NewFieldWithSpecCall \/ SetSubfieldCall \/ SubfieldCall

AccessorSpec == AccessorInit /\ [][AccessorNext]_vars

\* the input of the TLV calls to come
TLVInit ==
    /\ tlvIn \in TLVInputs /\ tlvEnc = Nil /\ tlvDec = Nil
    /\ IdleBitmap /\ IdleRest /\ IdleMessage /\ IdleLocator /\ IdleAccessor

\* out, err := TLV.Encode(tlvIn)
TLVEncodeCall ==
    /\ tlvEnc = Nil
    /\ tlvEnc' = <<TLVEncode(tlvIn)>>
    /\ UNCHANGED <<tlvIn, tlvDec, bmVars, msgVars, pfVars, restVars, accVars>>

\* out, n, err := TLV.Decode(tlvIn)
TLVDecodeCall ==
    /\ tlvDec = Nil
    /\ tlvDec' = <<TLVDecode(tlvIn)>>
    /\ UNCHANGED <<tlvIn, tlvEnc, bmVars, msgVars, pfVars, restVars, accVars>>

TLVNext == TLVEncodeCall \/ TLVDecodeCall
TLVSpec == TLVInit /\ [][TLVNext]_vars

\* p := NewParser(s), with the arguments of the call to come
LocatorInit ==
    /\ pfBuf \in LocBufs /\ pfSpec \in LocSpecs /\ pfNum \in LocFields
    /\ pfOff \in LocOffsets
    /\ pfRes = [cur |-> NoCursor, err |-> "not called"]
    /\ IdleBitmap /\ IdleRest /\ IdleMessage /\ IdleAccessor /\ IdleTLV

\* cur, err := p.ParseField(pfBuf, pfNum, pfOff)
ParseFieldCall ==
    /\ pfRes.err = "not called"
    /\ pfRes' = ParseField(pfSpec, pfBuf, pfNum, pfOff)
    /\ UNCHANGED <<pfBuf, pfSpec, pfNum, pfOff, bmVars, msgVars, accVars, tlvVars, restVars>>

LocatorNext == ParseFieldCall
LocatorSpec == LocatorInit /\ [][LocatorNext]_vars

(***************************************************************************)
(* Properties of the bitmap, checked under BitmapSpec.                     *)
(***************************************************************************)
\* C6: in every bitmap state reached from NewBitmap by Set and Unset calls,
\* IsExtended() is true exactly when IsSet(1) is.
C6_ExtendedIffBit1 ==
    bm # Nil => (IsExtended(bm[1]) <=> IsSet(bm[1], 1))

\* C7: NewBitmap of 8 bytes with the high bit of byte 0 clear consumes 8 and
\* serializes back to the same bytes; of 16 bytes with that bit set, 16.
C7_NewBitmapRoundTrip ==
    call[1] = "NewBitmap" =>
        /\ (Len(bmData) = 8 /\ bmData[1] < 128) =>
               bmErr = "nil" /\ bmRead = 8 /\ Bytes(bm[1]) = bmData
        /\ (Len(bmData) = 16 /\ bmData[1] >= 128) =>
               bmErr = "nil" /\ bmRead = 16 /\ Bytes(bm[1]) = bmData

C7_Witness ==
    /\ call[1] = "NewBitmap" /\ Len(bmData) = 16 /\ bmData[1] = 192
    /\ bmData[9] = 128 /\ bmRead = 16 /\ Bytes(bm[1]) = bmData

\* C8: after Set(n), n in 1..128, IsSet(n) holds; for n in 65..128 so do
\* IsSet(1) and IsExtended() and Bytes() has 16 bytes; Set(n) for any other
\* n leaves primary, secondary and extended as they were.
C8_SetEffect ==
    [][call'[1] = "Set" =>
         LET n == call'[2]
         IN /\ n \in 1..128 => IsSet(bm'[1], n)
            /\ n \in 65..128 =>
                  IsSet(bm'[1], 1) /\ IsExtended(bm'[1]) /\ Len(Bytes(bm'[1])) = 16
            /\ n \notin 1..128 => bm' = bm]_vars

C8_Witness ==
    /\ call = <<"Set", 65>> /\ bmData = [i \in 1..8 |-> 0]
    /\ IsSet(bm[1], 65) /\ IsSet(bm[1], 1) /\ Len(Bytes(bm[1])) = 16

\* C9: Unset(n), n in 1..128, clears bit n and nothing else: the other bits
\* of primary and secondary and the extended flag stay, so bit 1 survives the
\* Unset of a secondary field; Unset(n) for any other n changes nothing.
C9_UnsetFrame ==
    [][call'[1] = "Unset" =>
         LET n == call'[2]
         IN /\ n \in 1..64 =>
                  /\ \A k \in 0..63 : k \in bm'[1].primary <=>
                                        (k \in bm[1].primary /\ k # 64 - n)
                  /\ bm'[1].secondary = bm[1].secondary
            /\ n \in 65..128 =>
                  /\ \A k \in 0..63 : k \in bm'[1].secondary <=>
                                        (k \in bm[1].secondary /\ k # 128 - n)
                  /\ bm'[1].primary = bm[1].primary
            /\ n \in 1..128 => bm'[1].extended = bm[1].extended
            /\ n \notin 1..128 => bm' = bm]_vars

C9_Witness ==
    /\ call = <<"Unset", 65>> /\ bm[1].secondary = {} /\ bm[1].extended
    /\ IsSet(bm[1], 1)

\* C10: PresentFields() lists, strictly ascending, exactly the n in 1..128
\* with IsSet(n); IsSet(n) is false outside 1..128, and for n >= 65 when the
\* bitmap is not extended.
C10_PresentFieldsExact ==
    bm # Nil =>
        LET pf == PresentFields(bm[1])
        IN /\ \A i \in 1..(Len(pf) - 1) : pf[i] < pf[i + 1]
           /\ {pf[i] : i \in 1..Len(pf)} = {n \in 1..128 : IsSet(bm[1], n)}
           /\ \A n \in (-3..0) \cup (129..132) : ~IsSet(bm[1], n)
           /\ ~IsExtended(bm[1]) => \A n \in 65..128 : ~IsSet(bm[1], n)

C10_Witness ==
    /\ bm # Nil /\ PresentFields(bm[1]) = <<1, 2, 64, 65, 128>>

(***************************************************************************)
(* Properties of the field locator, checked under LocatorSpec.             *)
(***************************************************************************)
PfCalled == pfRes.err # "not called" /\ pfNum \in DOMAIN pfSpec

PfField == pfSpec[pfNum]

\* the number of length-indicator digits of the kinds L, LL, LLL
IndicatorDigits == ("L" :> 1) @@ ("LL" :> 2) @@ ("LLL" :> 3)

IsDigit(c) == c \in 48..57

\* the decimal value of the d digits at 0-based positions off .. off+d-1
DecimalAt(b, off, d) ==
    CASE d = 1 -> b[off + 1] - 48
      [] d = 2 -> 10 * (b[off + 1] - 48) + (b[off + 2] - 48)
      [] d = 3 -> 100 * (b[off + 1] - 48) + 10 * (b[off + 2] - 48) + (b[off + 3] - 48)

\* C2: for a field of kind L, LL or LLL (d = 1, 2, 3), ParseField succeeds
\* iff offset+d <= |buf|, the d indicator bytes are ASCII digits, their value
\* n is at most MaxLength and offset+d+n <= |buf|; the cursor is then
\* {offset+d, offset+d+n}.
C2_VariableLocated ==
    (PfCalled /\ PfField.Type \in DOMAIN IndicatorDigits) =>
        LET d == IndicatorDigits[PfField.Type]
            fits == pfOff + d <= Len(pfBuf)
            digits == fits /\ \A i \in 1..d : IsDigit(pfBuf[pfOff + i])
            n == DecimalAt(pfBuf, pfOff, d)
            good == digits /\ n <= PfField.MaxLength /\ pfOff + d + n <= Len(pfBuf)
        IN /\ (pfRes.err = "nil") <=> good
           /\ good => pfRes.cur = [Start |-> pfOff + d, End |-> pfOff + d + n]

C2_Witness ==
    /\ pfBuf = LLExample /\ pfSpec = SpecT /\ pfNum = 2 /\ pfOff = 0
    /\ pfRes = [cur |-> [Start |-> 2, End |-> 18], err |-> "nil"]

\* C3: for a field of kind Fixed or Bitmap with Length > 0, ParseField
\* succeeds iff offset+Length <= |buf|, with the cursor {offset,
\* offset+Length}, and otherwise fails with offset-exceeds-buffer.
C3_FixedLocated ==
    (PfCalled /\ PfField.Type \in {"Fixed", "Bitmap"} /\ PfField.Length > 0) =>
        IF pfOff + PfField.Length <= Len(pfBuf)
        THEN pfRes = [cur |-> [Start |-> pfOff, End |-> pfOff + PfField.Length],
                      err |-> "nil"]
        ELSE pfRes.err = "ErrOffsetExceedsBufferLen"

C3_Witness ==
    /\ pfBuf = FixedExample /\ pfSpec = SpecT /\ pfNum = 4 /\ pfOff = 0
    /\ pfRes.err = "ErrOffsetExceedsBufferLen"

\* C13: for a field of kind L, LL or LLL whose d indicator bytes lie inside
\* the buffer, ParseField fails with invalid-digit if an indicator byte is
\* not a digit; otherwise with field-length-exceeds-max if the declared
\* length n exceeds MaxLength, even when n also overruns the buffer;
\* otherwise with offset-exceeds-buffer if offset+d+n > |buf|; exactly one
\* kind is reported, in that precedence.
C13_VariableErrorPrecedence ==
    (PfCalled /\ PfField.Type \in DOMAIN IndicatorDigits
       /\ pfOff + IndicatorDigits[PfField.Type] <= Len(pfBuf)) =>
        LET d == IndicatorDigits[PfField.Type]
            n == DecimalAt(pfBuf, pfOff, d)
        IN IF \E i \in 1..d : ~IsDigit(pfBuf[pfOff + i])
           THEN pfRes.err = "ErrInvalidDigit"
           ELSE IF n > PfField.MaxLength
           THEN pfRes.err = "ErrFieldLengthExceedsMax"
           ELSE IF pfOff + d + n > Len(pfBuf)
           THEN pfRes.err = "ErrOffsetExceedsBufferLen"
           ELSE pfRes.err = "nil"

\* "12" read at offset 1 with a one-digit indicator and MaxLength 1: length 2
\* both exceeds the maximum and overruns the buffer
C13_Witness ==
    /\ pfBuf = <<49, 50>> /\ pfSpec = SpecB /\ pfNum = 4 /\ pfOff = 1
    /\ pfRes.err = "ErrFieldLengthExceedsMax"

\* "XX" as a two-digit indicator
C13_WitnessDigit ==
    /\ pfBuf = <<88, 88>> /\ pfSpec = SpecT /\ pfNum = 2 /\ pfOff = 0
    /\ pfRes.err = "ErrInvalidDigit"

\* "121" declares 12 bytes with MaxLength 19 and one byte left
C13_WitnessBuffer ==
    /\ pfBuf = <<49, 50, 49>> /\ pfSpec = SpecT /\ pfNum = 2 /\ pfOff = 0
    /\ pfRes.err = "ErrOffsetExceedsBufferLen"

\* C14: for a field of kind L, LL or LLL defined in the spec and any offset
\* >= 0, whenever fewer than d bytes remain at the offset (offset+d > |buf|,
\* offset = |buf| included), ParseField fails with the
\* insufficient-bytes-for-length-indicator kind.
C14_InsufficientIndicator ==
    (PfCalled /\ PfField.Type \in DOMAIN IndicatorDigits
       /\ pfOff + IndicatorDigits[PfField.Type] > Len(pfBuf)) =>
        pfRes.err = "ErrInsufficientLengthIndicator"

(***************************************************************************)
(* Properties of the message, checked under MessageSpec.                   *)
(***************************************************************************)
Parsed == parseRes.kind = "nil"

\* where the fields start: after the MTI and an 8- or 16-byte bitmap
HeaderEnd == IF IsExtended(bitmap[1]) THEN 20 ELSE 12

\* the fields the walk visits: present, not field 1, defined in the spec
Walked ==
    LET pf == PresentFields(bitmap[1])
    IN ({pf[i] : i \in 1..Len(pf)} \cap (DOMAIN mspec)) \ {1}

MaxOf(S) == CHOOSE x \in S : \A y \in S : y <= x

\* the offset at which field f is looked for: the End of the cursor of the
\* closest walked field below f, or the end of the header
OffsetFor(f) ==
    LET below == {g \in Walked : g < f}
    IN IF below = {} THEN HeaderEnd ELSE cursors[MaxOf(below)].End

\* C1: a successful Parse records exactly the cursors found by walking the
\* present fields in ascending order, without field 1 and fields outside the
\* spec, the first at offset 12 or 20 and each next one at the End of the
\* cursor before it; Parse fails with an error naming the field and wrapping
\* the locator's error exactly when one of these ParseField calls fails.
C1_CursorsFollowWalk ==
    /\ Parsed =>
          /\ DOMAIN cursors = Walked
          /\ \A f \in Walked :
                ParseField(mspec, buf, f, OffsetFor(f)) = [cur |-> cursors[f], err |-> "nil"]
    /\ parseRes.kind = "failed to parse field" =>
          LET f == parseRes.field
          IN /\ f \in Walked
             /\ DOMAIN cursors = {g \in Walked : g < f}
             /\ \A g \in DOMAIN cursors :
                   ParseField(mspec, buf, g, OffsetFor(g)) = [cur |-> cursors[g], err |-> "nil"]
             /\ parseRes.cause # "nil"
             /\ ParseField(mspec, buf, f, OffsetFor(f)).err = parseRes.cause
    /\ parseRes.kind \notin {"nil", "failed to parse field"} => cursors = EmptyMap

C1_Witness ==
    /\ Parsed /\ IsExtended(bitmap[1]) /\ DOMAIN cursors = {2, 66}
    /\ cursors[2] = [Start |-> 21, End |-> 22]
    /\ cursors[66] = [Start |-> 24, End |-> 24]

FieldOf(n) == Field(mspec, buf, mti, bitmap, cursors, n)

\* C4: after a successful Parse, Field(n).Exists() for n in 1..128 is true
\* iff the bitmap has n set and a cursor was recorded for n, and Bytes() is
\* then buf[cursor.Start:cursor.End], an empty located range included;
\* Field(0) is the MTI accessor.
C4_FieldExistsIffLocated ==
    Parsed =>
        /\ \A n \in 1..128 :
              /\ Exists(FieldOf(n)) <=> (IsSet(bitmap[1], n) /\ n \in DOMAIN cursors)
              /\ Exists(FieldOf(n)) =>
                    FieldBytes(FieldOf(n)) = Slice(buf, cursors[n].Start, cursors[n].End)
        /\ FieldOf(0) = MTI(mti)

\* the positions of buf that Field(n).Bytes() is a slice of
FieldRange(n) ==
    IF Exists(FieldOf(n)) THEN cursors[n].Start .. (cursors[n].End - 1) ELSE {}

PresentNumbers ==
    LET pf == MsgPresentFields(bitmap)
    IN {pf[i] : i \in 1..Len(pf)} \ {0}

Located == PresentNumbers \cap DOMAIN cursors

LastEnd == IF Located = {} THEN HeaderEnd ELSE cursors[MaxOf(Located)].End

RangesDisjointInOrder ==
    \A f, g \in PresentNumbers :
        f < g => \A p \in FieldRange(f), q \in FieldRange(g) : p < q

\* the positions of the length indicator in front of a located field
IndicatorRange(n) ==
    LET d == LengthIndicatorDigits(mspec[n].Type)
    IN (cursors[n].Start - d) .. (cursors[n].Start - 1)

\* C5 as stated: after a successful Parse the ranges of Field(n).Bytes(), n
\* present and not 0, are pairwise disjoint and cover every byte from the end
\* of the bitmap to the end of the last cursor.
C5_RangesPartition ==
    Parsed =>
        /\ RangesDisjointInOrder
        /\ \A p \in HeaderEnd .. (LastEnd - 1) : \E n \in PresentNumbers : p \in FieldRange(n)

\* C5 amended: the ranges are pairwise disjoint and in field order, and every
\* byte from the end of the bitmap to the end of the last cursor lies either
\* in one of them or, not both, in the length indicator in front of a located
\* variable-length field.
C5_RangesAndIndicatorsPartition ==
    Parsed =>
        /\ RangesDisjointInOrder
        /\ \A p \in HeaderEnd .. (LastEnd - 1) :
              (\E n \in PresentNumbers : p \in FieldRange(n))
              <=> ~(\E n \in Located : p \in IndicatorRange(n))

C5_Witness ==
    /\ Parsed /\ Located = {2, 3}
    /\ FieldRange(2) = {13} /\ FieldRange(3) = {14, 15}
    /\ IndicatorRange(2) = {12}

\* C11: Validate(v) returns the "message not parsed" error, without invoking
\* v, whenever no Parse of the message has returned success: never called,
\* or called and failed (MTI length, MTI format, bitmap, locating a field).
\* The buffer never changes, so the last Parse result tells whether any
\* Parse has succeeded.
C11_ValidateNeedsParse ==
    (valRes.err # "not called" /\ ~Parsed) =>
        valRes.err = ErrNotParsed /\ ~valRes.invoked

\* C12: Parse applies its structural checks in a fixed order and fails at the
\* first one violated: fewer than 4 bytes, too short for the MTI; else a
\* non-digit among the first four bytes, invalid MTI format (also when the
\* buffer is shorter than 12); else fewer than 12 bytes, message too short;
\* else bit 1 set with fewer than 16 bitmap bytes, a bitmap failure wrapping
\* invalid bitmap; else none of these four.
HeaderKinds ==
    {"ErrInvalidMTI", "ErrInvalidMTIFormat", "ErrMessageTooShort",
     "ErrBitmapParseFailed"}

C12_StructuralOrder ==
    parseRes # NotCalled =>
        IF Len(buf) < 4 THEN parseRes = Err("ErrInvalidMTI")
        ELSE IF \E i \in 1..4 : buf[i] \notin 48..57
        THEN parseRes = Err("ErrInvalidMTIFormat")
        ELSE IF Len(buf) < 12 THEN parseRes = Err("ErrMessageTooShort")
        ELSE IF buf[5] >= 128 /\ Len(buf) - 4 < 16
        THEN parseRes.kind = "ErrBitmapParseFailed"
             /\ parseRes.cause = "ErrInvalidBitmap"
        ELSE parseRes.kind \notin HeaderKinds

\* an 11-byte buffer with a digit MTI, and a non-digit MTI in a short buffer
C12_Witness ==
    /\ Len(buf) = 11 /\ SubSeq(buf, 1, 4) = GoodMTI
    /\ parseRes = Err("ErrMessageTooShort")

C12_WitnessFormat ==
    /\ Len(buf) = 6 /\ SubSeq(buf, 1, 4) = BadMTI
    /\ parseRes = Err("ErrInvalidMTIFormat")

C12_WitnessBitmap ==
    /\ Len(buf) = 19 /\ buf[5] >= 128
    /\ parseRes.kind = "ErrBitmapParseFailed"

\* the fields the bitmap marks, other than field 1, that the spec lacks
Undefined ==
    LET pf == PresentFields(bitmap[1])
    IN ({pf[i] : i \in 1..Len(pf)} \ (DOMAIN mspec)) \ {1}

\* the buffer b with the bitmap bit of field f, which is set, cleared
Unmark(b, f) ==
    [b EXCEPT ![5 + ((f - 1) \div 8)] = @ - Pow2(7 - ((f - 1) % 8))]

\* C15: a field f other than 1 that the bitmap marks and the spec does not
\* define never makes Parse fail: Parse records no cursor for f and its
\* result and cursors are those of the same message with f not marked (the
\* offset is not moved and the walk goes on with the next present field);
\* ParseField called directly for f fails with field-not-defined at every
\* offset.
C15_UndefinedFieldSkipped ==
    (parseRes # NotCalled /\ bitmap # Nil) =>
        \A f \in Undefined :
            /\ f \notin DOMAIN cursors
            /\ parseRes.field # f
            /\ \E r \in {ParseOp(mspec, Unmark(buf, f), <<>>, Nil, EmptyMap)} :
                  r.cursors = cursors /\ r.res = parseRes
            /\ \A off \in 0..(Len(buf) + 1) :
                  ParseField(mspec, buf, f, off) = Fail("ErrFieldNotDefined")

\* fields 2, 65 and 67 marked, 65 outside the spec: 2 and 67 are located
\* back to back
C15_Witness ==
    /\ Parsed /\ Undefined = {65} /\ DOMAIN cursors = {2, 67}
    /\ cursors[67].Start = cursors[2].End

\* C16: Parse is idempotent after success: with the buffer unchanged, a
\* further Parse on a message whose Parse has succeeded succeeds too and
\* leaves the MTI, the bitmap (PresentFields, IsExtended) and the cursor map
\* as they were, hence every Field(n), HasField(n) and PresentFields().
C16_ParseIdempotent ==
    [][(Parsed /\ reparses' = reparses + 1) =>
          /\ parseRes' = Ok
          /\ mti' = mti /\ bitmap' = bitmap /\ cursors' = cursors
          /\ MsgPresentFields(bitmap') = MsgPresentFields(bitmap)
          /\ IsExtended(bitmap'[1]) = IsExtended(bitmap[1])
          /\ \A n \in {0, 1, 2, 3, 4, 65, 66, 67, 129} :
                /\ Field(mspec', buf', mti', bitmap', cursors', n) = FieldOf(n)
                /\ HasField(bitmap', n) = HasField(bitmap, n)]_vars

\* a message with a located field after its third Parse
C16_Witness ==
    /\ Parsed /\ reparses = 2 /\ DOMAIN cursors = {2}
    /\ cursors[2] = [Start |-> 12, End |-> 13]

(***************************************************************************)
(* Properties of the field accessor, checked under AccessorSpec.           *)
(***************************************************************************)
\* C17: an accessor whose exists flag is false, built by NewField with any
\* data and any SetSubfield calls, has Exists() false, Bytes() empty,
\* String() and Hex() "", Int() and Int64() 0, IntE() and Int64E() the
\* field-not-present error, Len() 0, HasSubfields() false and a non-existent
\* Subfield(n) for every n.
C17_AbsentAccessor ==
    (fld # Nil /\ ~fld[1].exists) =>
        LET f == fld[1]
        IN /\ ~Exists(f)
           /\ FieldBytes(f) = <<>>
           /\ String(f) = <<>> /\ Hex(f) = <<>>
           /\ IntOf(f) = 0 /\ Int64(f) = 0
           /\ IntE(f).err = "ErrFieldNotPresent"
           /\ Int64E(f).err = "ErrFieldNotPresent"
           /\ FieldLen(f) = 0
           /\ ~HasSubfields(f)
           /\ \A n \in SubNums : ~Exists(Subfield(f, n))

\* the child specs of a composite spec as the locator's field table
ChildTable(fs) ==
    [n \in {fs.Children[i].Number : i \in 1..Len(fs.Children)} |->
        LET c == CHOOSE c \in {fs.Children[i] : i \in 1..Len(fs.Children)} :
                     c.Number = n
        IN FieldSpec(c.Type, c.Length, c.MaxLength)]

RECURSIVE ChildRange(_, _, _, _, _)
\* where the walk over the child specs from the i-th on, in declaration
\* order, finds child n in data: <<cursor>>, or Nil if a child cannot be
\* located or n is not declared
ChildRange(fs, data, n, i, offset) ==
    IF i > Len(fs.Children) THEN Nil
    ELSE LET r == ParseField(ChildTable(fs), data, fs.Children[i].Number, offset)
         IN IF r.err # "nil" THEN Nil
            ELSE IF fs.Children[i].Number = n THEN <<r.cur>>
            ELSE ChildRange(fs, data, n, i + 1, r.cur.End)

\* C18: on an existing accessor, Subfield(n) returns the child installed
\* with SetSubfield(n, c); for a child n declared in the accessor's spec and
\* not installed, it walks the child specs in declaration order with the
\* locator from offset 0 of the parent's bytes, returns an existing accessor
\* over the child's byte range and caches it.
C18_SubfieldResolves ==
    (fld # Nil /\ sub # Nil /\ fld[1].exists) =>
        LET f == fld[1]
            n == sub[1].num
            r == sub[1].res
            installed == f.children # Nil /\ n \in DOMAIN f.children[1]
        IN /\ installed => r = f.children[1][n]
           /\ (f.spec # Nil /\ f.parser /\ ChildRange(f.spec[1], f.data, n, 1, 0) # Nil) =>
                 LET c == ChildRange(f.spec[1], f.data, n, 1, 0)[1]
                 IN /\ installed
                    /\ \/ r \in ChildFields
                       \/ Exists(r) /\ FieldBytes(r) = Slice(f.data, c.Start, c.End)

(***************************************************************************)
(* Properties of the TLV encoder, checked under TLVSpec.                   *)
(***************************************************************************)
RECURSIVE HasBadTriplet(_)
\* reading b as triplets from the left, one of them is truncated (tag,
\* length or value cut short), has a length byte with the high bit set, or
\* has a tag of more than two bytes (lead byte with low five bits 0x1F and a
\* second byte with the continuation bit)
HasBadTriplet(b) ==
    IF b = <<>> THEN FALSE
    ELSE LET two == b[1] % 32 = 31
             t == IF two THEN 2 ELSE 1
         IN \/ Len(b) < t
            \/ two /\ b[2] >= 128
            \/ Len(b) < t + 1
            \/ b[t + 1] >= 128
            \/ Len(b) < t + 1 + b[t + 1]
            \/ HasBadTriplet(SubSeq(b, t + 2 + b[t + 1], Len(b)))

\* C19: TLV.Encode and TLV.Decode fail with the malformed-TLV error on every
\* input that contains a truncated triplet, a length byte with the high bit
\* set or a tag of more than two bytes.
C19_MalformedRejected ==
    HasBadTriplet(tlvIn) =>
        /\ tlvEnc # Nil => tlvEnc[1].err = "ErrTLVMalformed"
        /\ tlvDec # Nil => tlvDec[1].cause = "ErrTLVMalformed"

RECURSIVE WellFormed(_)
\* b is a concatenation of flat triplets: a tag of one byte, or of two with a
\* lead byte whose low five bits are 0x1F, a length byte below 0x80 and that
\* many value bytes
WellFormed(b) ==
    \/ b = <<>>
    \/ \E t \in 1..2 :
          /\ Len(b) >= t + 1
          /\ (t = 2) <=> (b[1] % 32 = 31)
          /\ t = 2 => b[2] < 128
          /\ b[t + 1] < 128
          /\ Len(b) >= t + 1 + b[t + 1]
          /\ WellFormed(SubSeq(b, t + 2 + b[t + 1], Len(b)))

\* C20: the TLV encoder is a validating pass-through: when Encode succeeds
\* on b its output is b byte for byte, when Decode succeeds on b it returns
\* (b, |b|), and both succeed on every concatenation of well-formed flat
\* triplets, the empty input and zero-length values included.
C20_PassThrough ==
    /\ (tlvEnc # Nil /\ tlvEnc[1].err = "nil") => tlvEnc[1].out = tlvIn
    /\ (tlvDec # Nil /\ tlvDec[1].err = "nil") =>
          tlvDec[1].out = tlvIn /\ tlvDec[1].read = Len(tlvIn)
    /\ WellFormed(tlvIn) =>
          /\ tlvEnc # Nil => tlvEnc[1].err = "nil"
          /\ tlvDec # Nil => tlvDec[1].err = "nil"

\* the two-byte tag 9F 01 with the one-byte value 5A
C20_Witness ==
    /\ tlvIn = <<159, 1, 1, 90>>
    /\ tlvEnc = <<[out |-> tlvIn, err |-> "nil"]>>
    /\ tlvDec # Nil /\ tlvDec[1].out = tlvIn /\ tlvDec[1].read = 4

\* two triplets with one-byte tags and zero-length values
C20_WitnessEmptyValues ==
    /\ tlvIn = <<90, 0, 2, 0>>
    /\ tlvEnc = <<[out |-> tlvIn, err |-> "nil"]>>
    /\ tlvDec # Nil /\ tlvDec[1].out = tlvIn /\ tlvDec[1].read = 4

(***************************************************************************)
(* Further properties of the message.                                      *)
(***************************************************************************)
\* C28: in every state reached by Parse calls, if MTI().Exists() then
\* MTI().String() is exactly four ASCII digits; a Parse that rejects the MTI
\* format leaves MTI() absent.
C28_MTIDigitsOrAbsent ==
    /\ Exists(MTI(mti)) =>
          /\ Len(FieldBytes(MTI(mti))) = 4
          /\ \A i \in 1..4 : IsDigit(FieldBytes(MTI(mti))[i])
    /\ parseRes.kind = "ErrInvalidMTIFormat" => ~Exists(MTI(mti))

\* field numbers inside and outside 0..128
ReadNums == {0 - 1, 0, 1, 2, 3, 4, 64, 65, 66, 67, 128, 129, 200}

\* C26: before Parse is called, Field(n).Exists() is false for every n (0
\* included), MTI().Exists() is false, HasField(n) is false for every n # 0
\* and PresentFields() is [0]; in every state Field(n) is an absent accessor
\* for n outside 0..128.
C26_ReadsBeforeParse ==
    /\ parseRes = NotCalled =>
          /\ \A n \in ReadNums : ~Exists(FieldOf(n))
          /\ ~Exists(MTI(mti))
          /\ \A n \in ReadNums \ {0} : ~HasField(bitmap, n)
          /\ MsgPresentFields(bitmap) = <<0>>
    /\ \A n \in ReadNums : (n < 0 \/ n > 128) => FieldOf(n) = AbsentField

\* a message, never parsed but handed to Validate, whose buffer marks field
\* 2; and a parsed one
C26_Witness ==
    /\ parseRes = NotCalled /\ valRes.err = ErrNotParsed
    /\ Len(buf) = 13 /\ buf[5] = 64
    /\ MsgPresentFields(bitmap) = <<0>> /\ ~HasField(bitmap, 2)

C26_WitnessParsed ==
    /\ Parsed /\ DOMAIN cursors = {2} /\ FieldOf(129) = AbsentField
    /\ Exists(FieldOf(2))

\* the field lists handed to NewRequiredFieldsRule
RequiredLists == {<<2>>, <<4>>, <<2, 3>>, <<1, 66>>, <<0, 67>>}

\* C27: after a successful Parse, HasField(n) and Field(n).Exists() agree
\* for every n in 0..128, so whenever RequiredFieldsRule(ns).Check returns
\* nil, Field(n).Exists() holds for every n in ns.
C27_HasFieldIffExists ==
    Parsed =>
        /\ \A n \in ReadNums \cap (0..128) :
              HasField(bitmap, n) <=> Exists(FieldOf(n))
        /\ \A ns \in RequiredLists :
              RequiredFieldsCheck(bitmap, ns, 1).err = "nil" =>
                  \A i \in 1..Len(ns) : Exists(FieldOf(ns[i]))

\* C30: after a successful Parse every recorded cursor c has headerEnd <=
\* c.Start <= c.End <= |buf| (headerEnd 12 or 20), and for recorded fields
\* f < g the cursor of f ends at or before the start of the cursor of g.
C30_CursorsOrdered ==
    Parsed =>
        /\ \A f \in DOMAIN cursors :
              /\ HeaderEnd <= cursors[f].Start
              /\ cursors[f].Start <= cursors[f].End
              /\ cursors[f].End <= Len(buf)
        /\ \A f, g \in DOMAIN cursors :
              f < g => cursors[f].End <= cursors[g].Start

\* an extended message whose fields 2 and 66 fill the buffer to its end
C30_Witness ==
    /\ Parsed /\ HeaderEnd = 20 /\ DOMAIN cursors = {2, 66}
    /\ cursors[2].End <= cursors[66].Start
    /\ cursors[66].Start < cursors[66].End /\ cursors[66].End = Len(buf)

(***************************************************************************)
(* Further properties of the bitmap, checked under BitmapSpec.             *)
(***************************************************************************)
\* C29: for every bitmap b reached from NewBitmap by Set and Unset calls,
\* NewBitmap(b.Bytes()) succeeds, consumes exactly len(b.Bytes()) bytes and
\* yields a bitmap with the PresentFields() and IsExtended() of b.
C29_SerializeReread ==
    bm # Nil =>
        \E r \in {NewBitmap(Bytes(bm[1]))} :
            /\ r.err = "nil"
            /\ r.n = Len(Bytes(bm[1]))
            /\ PresentFields(r.bm[1]) = PresentFields(bm[1])
            /\ IsExtended(r.bm[1]) = IsExtended(bm[1])

(***************************************************************************)
(* BCD encoder: src/pkg/encoding/bcd.go                                    *)
(***************************************************************************)

digitsPerByte == 2

errInvalidBCDDigit == "invalid BCD digit"

\* high < '0' || high > '9' is the negation of this
IsBCDDigit(b) == b >= 48 /\ b <= 57

\* a variant that pads an odd-length input on the right
BCDPadRight(data) ==
    IF Len(data) % 2 # 0 THEN data \o <<48>> ELSE data

\* Encode, the padding step: odd-length input is left-padded with '0'
BCDPad(data) ==
    IF Len(data) % 2 # 0 THEN <<48>> \o data ELSE data

\* a | b on uint8
Or8(a, b) ==
    LET f[i \in 0..8] ==
            IF i = 8 THEN 0
            ELSE (IF (a \div 2^i) % 2 = 1 \/ (b \div 2^i) % 2 = 1
                  THEN 2^i ELSE 0) + f[i + 1]
    IN  f[0]

\* ((high - '0') << 4) | (low - '0') on uint8
PackDigits(high, low) ==
    Or8(((high - 48) * 16) % 256, (low - 48) % 256)

\* out, err := BCD.Encode(data); the loop returns at the first bad pair
BCDEncode(data) ==
    IF Len(data) = 0 THEN [out |-> <<>>, err |-> "nil"]
    ELSE LET d == BCDPad(data)
             n == Len(d) \div digitsPerByte
             bad == {k \in 1..n : ~IsBCDDigit(d[2 * k - 1]) \/ ~IsBCDDigit(d[2 * k])}
         IN  IF bad # {} THEN [out |-> <<>>, err |-> errInvalidBCDDigit]
             ELSE [out |-> [k \in 1..n |-> PackDigits(d[2 * k - 1], d[2 * k])],
                   err |-> "nil"]

\* h := (b >> 4) & 0x0F
HighNibble(b) == (b \div 16) % 16

\* l := b & 0x0F
LowNibble(b) == b % 16

\* out, read, err := BCD.Decode(data); read is the index of the first bad byte
BCDDecode(data) ==
    IF Len(data) = 0 THEN [out |-> <<>>, read |-> 0, err |-> "nil"]
    ELSE LET bad == {i \in 1..Len(data) :
                        HighNibble(data[i]) > 9 \/ LowNibble(data[i]) > 9}
         IN  IF bad # {}
             THEN [out |-> <<>>,
                   read |-> (CHOOSE i \in bad : \A j \in bad : i <= j) - 1,
                   err |-> errInvalidBCDDigit]
             ELSE [out |-> [k \in 1..(Len(data) * digitsPerByte) |->
                              IF k % 2 = 1
                              THEN 48 + HighNibble(data[(k + 1) \div 2])
                              ELSE 48 + LowNibble(data[k \div 2])],
                   read |-> Len(data),
                   err |-> "nil"]

MaxBCDLen == 3

\* '0', '1', '9', '/', ':', and bytes 0x12, 0x1A, 0xA0, 0x99
BCDBytes == {48, 49, 57, 47, 58, 18, 26, 160, 153}

BCDInputs == SeqsUpTo(BCDBytes, MaxBCDLen)

BCDInit ==
    /\ IdleBitmap /\ IdleMessage /\ IdleLocator /\ IdleAccessor /\ IdleTLV
    /\ IdleRules /\ IdleReaders
    /\ bcdIn \in BCDInputs
    /\ bcdEnc = Nil /\ bcdDec = Nil /\ bcdRound = Nil

\* enc, err := BCD.Encode(in)
BCDEncodeCall ==
    /\ bcdEnc = Nil
    /\ bcdEnc' = <<BCDEncode(bcdIn)>>
    /\ UNCHANGED <<bcdIn, bcdDec, bcdRound, bmVars, msgVars, pfVars, accVars,
                   tlvVars, ruleVars, rd>>

\* out, n, err := BCD.Decode(in)
BCDDecodeCall ==
    /\ bcdDec = Nil
    /\ bcdDec' = <<BCDDecode(bcdIn)>>
    /\ UNCHANGED <<bcdIn, bcdEnc, bcdRound, bmVars, msgVars, pfVars, accVars,
                   tlvVars, ruleVars, rd>>

\* out, n, err := BCD.Decode(enc), for the enc a successful Encode returned
BCDRoundTripCall ==
    /\ bcdEnc # Nil
    /\ bcdEnc[1].err = "nil"
    /\ bcdRound = Nil
    /\ bcdRound' = <<BCDDecode(bcdEnc[1].out)>>
    /\ UNCHANGED <<bcdIn, bcdEnc, bcdDec, bmVars, msgVars, pfVars, accVars,
                   tlvVars, ruleVars, rd>>

BCDNext == BCDEncodeCall \/ BCDDecodeCall \/ BCDRoundTripCall

BCDSpec == BCDInit /\ [][BCDNext]_vars

AllDigits(s) == \A i \in 1..Len(s) : IsBCDDigit(s[i])

\* C21: for every digit string s (the empty one included) Encode succeeds with
\* ceil(|s|/2) bytes, and Decode of that output succeeds, consumes all of it
\* and returns s when |s| is even and "0"+s when it is odd; Encode fails for
\* an input with a non-digit byte and Decode fails for an input holding a byte
\* with a nibble greater than 9.
C21_BCDRoundTrip ==
    /\ bcdEnc # Nil =>
         IF AllDigits(bcdIn)
         THEN /\ bcdEnc[1].err = "nil"
              /\ Len(bcdEnc[1].out) = (Len(bcdIn) + 1) \div 2
         ELSE bcdEnc[1].err # "nil"
    /\ (bcdRound # Nil /\ AllDigits(bcdIn)) =>
         /\ bcdRound[1].err = "nil"
         /\ bcdRound[1].read = Len(bcdEnc[1].out)
         /\ bcdRound[1].out =
              IF Len(bcdIn) % 2 = 0 THEN bcdIn ELSE <<48>> \o bcdIn
    /\ (bcdDec # Nil /\ \E i \in 1..Len(bcdIn) :
                           (bcdIn[i] \div 16) > 9 \/ (bcdIn[i] % 16) > 9) =>
         bcdDec[1].err # "nil"

\* "190" encodes to 0x01 0x90 and decodes back to "0190"
C21_Witness ==
    /\ bcdIn = <<49, 57, 48>>
    /\ bcdEnc = <<[out |-> <<1, 144>>, err |-> "nil"]>>
    /\ bcdRound = <<[out |-> <<48, 49, 57, 48>>, read |-> 2, err |-> "nil"]>>

\* "1:" is refused by Encode, and 0x1A 0x12 by Decode at index 0
C21_WitnessRefused ==
    \/ /\ bcdIn = <<49, 58>> /\ bcdEnc # Nil /\ bcdEnc[1].err = errInvalidBCDDigit
    \/ /\ bcdIn = <<26, 18>> /\ bcdDec # Nil
       /\ bcdDec[1].err = errInvalidBCDDigit /\ bcdDec[1].read = 0

(***************************************************************************)
(* CompositeValidator: src/pkg/core/validator.go                           *)
(* A validator of the list is represented by the error its Validate        *)
(* returns for the message at hand ("nil" for none); calls is the list of  *)
(* the 1-based positions whose Validate was invoked, in invocation order.  *)
(***************************************************************************)

RECURSIVE compositeLoopAll(_, _, _)
RECURSIVE compositeLoop(_, _, _)

\* a variant of the loop that keeps going after an error and returns the last
compositeLoopAll(validators, i, calls) ==
    IF i > Len(validators) THEN [calls |-> calls, err |-> "nil"]
    ELSE LET r == compositeLoopAll(validators, i + 1, Append(calls, i))
         IN  IF validators[i] # "nil" /\ r.err = "nil"
             THEN [calls |-> r.calls, err |-> validators[i]]
             ELSE r

\* for _, v := range c.validators { if err := v.Validate(msg); err != nil { return err } }
compositeLoop(validators, i, calls) ==
    IF i > Len(validators) THEN [calls |-> calls, err |-> "nil"]
    ELSE IF validators[i] # "nil"
         THEN [calls |-> Append(calls, i), err |-> validators[i]]
         ELSE compositeLoop(validators, i + 1, Append(calls, i))

\* err := c.Validate(msg)
CompositeValidate(validators) == compositeLoop(validators, 1, <<>>)

MaxValidators == 4

\* what a validator of the list returns
ValidatorOutcomes == {"nil", "e1", "e2"}

\* NewCompositeValidator(validators...)
CompositeInit ==
    /\ IdleBitmap /\ IdleMessage /\ IdleLocator /\ IdleAccessor /\ IdleTLV
    /\ IdleBCD /\ IdleReaders
    /\ cvList \in SeqsUpTo(ValidatorOutcomes, MaxValidators)
    /\ cvRes = Nil
    /\ lnHas = FALSE /\ lnNum = <<>> /\ lnRes = "not called"
    /\ fmtMsg = Nil /\ fmtRes = "not called"

\* err := c.Validate(msg)
CompositeValidateCall ==
    /\ cvRes = Nil
    /\ cvRes' = <<CompositeValidate(cvList)>>
    /\ UNCHANGED <<cvList, lnHas, lnNum, lnRes, fmtMsg, fmtRes, bmVars,
                   msgVars, pfVars, accVars, tlvVars, bcdVars, rd>>

CompositeNext == CompositeValidateCall

CompositeValidatorSpec == CompositeInit /\ [][CompositeNext]_vars

\* C22: CompositeValidator.Validate invokes its validators in list order, once
\* each; at the first one returning an error it stops, invokes none of the
\* later ones and returns that very error; it returns nil exactly when every
\* validator returned nil, all of them having been invoked in order.
C22_CompositeStopsAtFirstError ==
    cvRes # Nil =>
        LET r == cvRes[1]
            failing == {i \in 1..Len(cvList) : cvList[i] # "nil"}
        IN  /\ \E k \in 0..Len(cvList) : r.calls = [i \in 1..k |-> i]
            /\ IF failing = {}
               THEN r.err = "nil" /\ Len(r.calls) = Len(cvList)
               ELSE \E k \in failing :
                       /\ \A j \in failing : k <= j
                       /\ r.err = cvList[k]
                       /\ Len(r.calls) = k
            /\ r.err = "nil" <=> \A i \in 1..Len(cvList) : cvList[i] = "nil"

\* the second of three validators fails: the third is never invoked
C22_Witness ==
    /\ cvList = <<"nil", "e1", "e2">>
    /\ cvRes = <<[calls |-> <<1, 2>>, err |-> "e1"]>>

\* three validators that all pass are all invoked
C22_WitnessAllPass ==
    /\ cvList = <<"nil", "nil", "nil">>
    /\ cvRes = <<[calls |-> <<1, 2, 3>>, err |-> "nil"]>>

(***************************************************************************)
(* LuhnCheckRule: src/pkg/core/validator.go                                *)
(* The rule reads the message through HasField and Field(..).String():     *)
(* lnHas and lnNum are what those two return for the rule's field.         *)
(***************************************************************************)

luhnParityDivisor == 2

luhnDoubleSubtractor == 9

ErrInvalidPANChecksum == "PAN failed Luhn checksum validation"

RECURSIVE luhnLoopFromLeft(_, _, _, _)
RECURSIVE luhnLoop(_, _, _, _)

\* a variant of the loop that doubles the even indices whatever the length
luhnLoopFromLeft(number, i, parity, sum) ==
    IF i >= Len(number) THEN sum % 10 = 0
    ELSE IF number[i + 1] < 48 \/ number[i + 1] > 57 THEN FALSE
    ELSE LET d == number[i + 1] - 48
             dd == IF i % luhnParityDivisor = 0
                   THEN (IF d * luhnParityDivisor > luhnDoubleSubtractor
                         THEN d * luhnParityDivisor - luhnDoubleSubtractor
                         ELSE d * luhnParityDivisor)
                   ELSE d
         IN  luhnLoopFromLeft(number, i + 1, parity, sum + dd)

\* for i, digit := range number { ... }; return sum%10 == 0
\* (a byte that is not an ASCII digit ends the loop with false, whatever rune
\* it is part of)
luhnLoop(number, i, parity, sum) ==
    IF i >= Len(number) THEN sum % 10 = 0
    ELSE IF number[i + 1] < 48 \/ number[i + 1] > 57 THEN FALSE
    ELSE LET d == number[i + 1] - 48
             dd == IF i % luhnParityDivisor = parity
                   THEN (IF d * luhnParityDivisor > luhnDoubleSubtractor
                         THEN d * luhnParityDivisor - luhnDoubleSubtractor
                         ELSE d * luhnParityDivisor)
                   ELSE d
         IN  luhnLoop(number, i + 1, parity, sum + dd)

\* luhnCheck(number)
luhnCheck(number) ==
    luhnLoop(number, 0, Len(number) % luhnParityDivisor, 0)

\* err := rule.Check(msg)
LuhnCheck(has, pan) ==
    IF ~has THEN "nil"
    ELSE IF ~luhnCheck(pan) THEN ErrInvalidPANChecksum
    ELSE "nil"

MaxPanLen == 3

\* '0'..'9' and 'A'
PanBytes == 48..57 \cup {65}

\* "4532015112830366"
ValidPan == <<52, 53, 51, 50, 48, 49, 53, 49, 49, 50, 56, 51, 48, 51, 54, 54>>

\* "4532015112830367"
InvalidPan == <<52, 53, 51, 50, 48, 49, 53, 49, 49, 50, 56, 51, 48, 51, 54, 55>>

PanInputs == SeqsUpTo(PanBytes, MaxPanLen) \cup {ValidPan, InvalidPan}

\* NewLuhnCheckRule(fieldNum) and a message to check
LuhnInit ==
    /\ IdleBitmap /\ IdleMessage /\ IdleLocator /\ IdleAccessor /\ IdleTLV
    /\ IdleBCD /\ IdleReaders
    /\ cvList = <<>> /\ cvRes = Nil
    /\ fmtMsg = Nil /\ fmtRes = "not called"
    /\ lnHas \in BOOLEAN
    /\ lnNum \in PanInputs
    /\ lnRes = "not called"

\* err := rule.Check(msg)
LuhnCheckCall ==
    /\ lnRes = "not called"
    /\ lnRes' = LuhnCheck(lnHas, lnNum)
    /\ UNCHANGED <<cvList, cvRes, lnHas, lnNum, fmtMsg, fmtRes, bmVars,
                   msgVars, pfVars, accVars, tlvVars, bcdVars, rd>>

LuhnNext == LuhnCheckCall

LuhnSpec == LuhnInit /\ [][LuhnNext]_vars

\* the sum as the property words it: the digit at 0-based index i is doubled
\* when i%2 = len%2, and 9 is subtracted from a doubled value above 9
RECURSIVE ClaimedSum(_, _)
ClaimedSum(s, k) ==
    IF k = 0 THEN 0
    ELSE LET d == s[k] - 48
             v == IF (k - 1) % 2 = Len(s) % 2 THEN 2 * d ELSE d
         IN  ClaimedSum(s, k - 1) + (IF v > 9 THEN v - 9 ELSE v)

\* the reference Luhn check: counting from the right, the rightmost digit is
\* kept, every second digit is doubled and replaced by the sum of its digits
RECURSIVE ReferenceSum(_, _)
ReferenceSum(s, p) ==
    IF p > Len(s) THEN 0
    ELSE LET d == s[Len(s) - p + 1] - 48
             v == IF p % 2 = 0 THEN ((2 * d) \div 10) + ((2 * d) % 10) ELSE d
         IN  v + ReferenceSum(s, p + 1)

ReferenceLuhn(s) == ReferenceSum(s, 1) % 10 = 0

\* C23: Check returns nil when the field is absent; when it is present it
\* returns the checksum error unless the value is made of digits only and the
\* sum (digit at index i doubled when i%2 = len%2, 9 subtracted above 9) is 0
\* mod 10; on digit strings this is the reference Luhn check, under which
\* "4532015112830366" passes, "4532015112830367" and "123" fail.
C23_LuhnCheck ==
    lnRes # "not called" =>
        /\ ~lnHas => lnRes = "nil"
        /\ lnHas =>
             /\ lnRes \in {"nil", ErrInvalidPANChecksum}
             /\ lnRes = "nil" <=>
                  (AllDigits(lnNum) /\ ClaimedSum(lnNum, Len(lnNum)) % 10 = 0)
             /\ AllDigits(lnNum) => (lnRes = "nil" <=> ReferenceLuhn(lnNum))
             /\ lnNum = ValidPan => lnRes = "nil"
             /\ lnNum \in {InvalidPan, <<49, 50, 51>>} =>
                  lnRes = ErrInvalidPANChecksum

\* the valid 16-digit number passes
C23_Witness == lnHas /\ lnNum = ValidPan /\ lnRes = "nil"

\* "123" is refused
C23_WitnessOdd ==
    lnHas /\ lnNum = <<49, 50, 51>> /\ lnRes = ErrInvalidPANChecksum

\* an absent field is skipped, whatever String() returns
C23_WitnessAbsent == ~lnHas /\ lnNum = <<65>> /\ lnRes = "nil"

(***************************************************************************)
(* FormatValidator: src/pkg/core/validator.go                              *)
(* The message handed to Validate is described by what a format check      *)
(* would look at for one field: whether the field is mandatory, the        *)
(* DataType and MaxLength declared for it, and its bytes when present.     *)
(***************************************************************************)

\* func (v *FormatValidator) Validate(_ MessageReader) error { return nil }
FormatValidate(msg) == "nil"

MaxFmtLen == 2

\* '0' and 'A'
FmtBytes == {48, 65}

DataTypes == {"Numeric", "Alpha", "Binary"}

FmtMessages ==
    [Mandatory : BOOLEAN, DataType : DataTypes, MaxLength : 1..MaxFmtLen,
     field : {Nil} \cup {<<v>> : v \in SeqsUpTo(FmtBytes, MaxFmtLen)}]

\* NewFormatValidator() and a parsed message to validate
FormatInit ==
    /\ IdleBitmap /\ IdleMessage /\ IdleLocator /\ IdleAccessor /\ IdleTLV
    /\ IdleBCD /\ IdleReaders
    /\ cvList = <<>> /\ cvRes = Nil
    /\ lnHas = FALSE /\ lnNum = <<>> /\ lnRes = "not called"
    /\ fmtMsg \in {<<m>> : m \in FmtMessages}
    /\ fmtRes = "not called"

\* err := v.Validate(msg)
FormatValidateCall ==
    /\ fmtRes = "not called"
    /\ fmtRes' = FormatValidate(fmtMsg[1])
    /\ UNCHANGED <<cvList, cvRes, lnHas, lnNum, lnRes, fmtMsg, bmVars,
                   msgVars, pfVars, accVars, tlvVars, bcdVars, rd>>

FormatNext == FormatValidateCall

FormatValidatorSpec == FormatInit /\ [][FormatNext]_vars

\* the bytes conform to the declared data type
Conforms(t, v) ==
    CASE t = "Numeric" -> \A i \in 1..Len(v) : v[i] \in 48..57
      [] t = "Alpha" -> \A i \in 1..Len(v) : v[i] \in (65..90) \cup (97..122)
      [] OTHER -> TRUE

\* a mandatory field is missing, or the present field has bytes outside its
\* data type or more bytes than its spec allows
FormatViolation(m) ==
    \/ m.Mandatory /\ m.field = Nil
    \/ m.field # Nil /\ ~Conforms(m.DataType, m.field[1])
    \/ m.field # Nil /\ Len(m.field[1]) > m.MaxLength

\* C25: FormatValidator.Validate returns an error for a parsed message with a
\* missing mandatory field, with a present field whose bytes do not conform to
\* its declared data type, or with a present field longer than its spec
\* allows; it returns nil only when none of these holds.
C25_FormatValidatorRejects ==
    fmtRes # "not called" => (fmtRes = "nil" <=> ~FormatViolation(fmtMsg[1]))

(***************************************************************************)
(* Concurrent readers of a parsed Message: src/pkg/core/message.go         *)
(* Each reader is a thread making one read call at a time.  Field reads    *)
(* m.bitmap, m.cursors and m.buf at three separate steps, so that steps of *)
(* other readers fall between them; the other calls read in one step.      *)
(* Parse is called by the owner before any reader starts.                  *)
(***************************************************************************)

NumReaders == 2

ReaderIds == 1..NumReaders

IdleReader == [op |-> "none", arg |-> 0, pc |-> "idle", loc |-> Nil, res |-> Nil]

\* the field numbers readers ask for
ReaderNums == {0, 2, 3, 200}

ReaderCalls ==
    {[op |-> "Field", arg |-> n] : n \in ReaderNums}
    \cup {[op |-> "HasField", arg |-> n] : n \in {0, 2}}
    \cup {[op |-> o, arg |-> 0] : o \in {"PresentFields", "MTI", "Bytes"}}

\* messages with no field, with field 2 ("0" an empty one, "1X"), with
\* fields 2 and 3, with a rejected MTI, and one too short to parse
ReaderBufs ==
    {GoodMTI \o PutUint64(WordOf({}, 64)),
     GoodMTI \o PutUint64(WordOf({2}, 64)) \o <<48>>,
     GoodMTI \o PutUint64(WordOf({2}, 64)) \o <<49, 88>>,
     GoodMTI \o PutUint64(WordOf({2, 3}, 64)) \o <<49, 88, 49, 50>>,
     BadMTI \o PutUint64(WordOf({2}, 64)) \o <<49, 88>>,
     <<48, 49>>}

\* a map read that removes the entry it returns
cursorsAfterTake(cs, fieldNum) ==
    [n \in DOMAIN cs \ {fieldNum} |-> cs[n]]

\* cursor, ok := m.cursors[fieldNum]: the map after the read
cursorsAfterLookup(cs, fieldNum) == cs

\* m := NewMessage(b, s), and the reader threads not yet started
ReaderInit ==
    /\ buf \in ReaderBufs /\ mspec \in Specs
    /\ mti = <<>> /\ bitmap = Nil /\ cursors = EmptyMap /\ parseRes = NotCalled
    /\ valRes = NoValidate /\ reparses = 0
    /\ IdleBitmap /\ IdleLocator /\ IdleAccessor /\ IdleTLV
    /\ IdleBCD /\ IdleRules
    /\ rd = [r \in ReaderIds |-> IdleReader]

ReaderFrame ==
    UNCHANGED <<mspec, parseRes, valRes, reparses, bmVars, pfVars, accVars,
                tlvVars, bcdVars, ruleVars>>

Running(r, op) == rd[r].pc = "running" /\ rd[r].op = op

Done(r, v) == rd' = [rd EXCEPT ![r].pc = "done", ![r].loc = Nil, ![r].res = <<v>>]

\* a reader thread enters one of the read methods, after Parse has returned
\* and after the thread's previous call, if any, has returned
ReaderCall(r) ==
    /\ parseRes # NotCalled
    /\ rd[r].pc \in {"idle", "done"}
    /\ \E c \in ReaderCalls :
          rd' = [rd EXCEPT ![r] = [op |-> c.op, arg |-> c.arg, pc |-> "running",
                                   loc |-> Nil, res |-> Nil]]
    /\ UNCHANGED <<buf, mti, bitmap, cursors>>
    /\ ReaderFrame

\* Field, up to "m.bitmap == nil || !m.bitmap.IsSet(fieldNum)"
FieldReadBitmap(r) ==
    /\ Running(r, "Field")
    /\ IF rd[r].arg < 0 \/ rd[r].arg > 128 THEN Done(r, AbsentField)
       ELSE IF rd[r].arg = 0 THEN Done(r, MTI(mti))
       ELSE IF bitmap = Nil \/ ~IsSet(bitmap[1], rd[r].arg)
            THEN Done(r, AbsentField)
       ELSE rd' = [rd EXCEPT ![r].pc = "cursor"]
    /\ UNCHANGED <<buf, mti, bitmap, cursors>>
    /\ ReaderFrame

\* Field: cursor, ok := m.cursors[fieldNum]
FieldReadCursor(r) ==
    /\ rd[r].pc = "cursor"
    /\ IF rd[r].arg \notin DOMAIN cursors THEN Done(r, AbsentField)
       ELSE rd' = [rd EXCEPT ![r].pc = "extract",
                             ![r].loc = <<cursors[rd[r].arg]>>]
    /\ cursors' = cursorsAfterLookup(cursors, rd[r].arg)
    /\ UNCHANGED <<buf, mti, bitmap>>
    /\ ReaderFrame

\* Field: data := cursor.Extract(m.buf), and the accessor returned
FieldExtract(r) ==
    /\ rd[r].pc = "extract"
    /\ \E data \in {Extract(rd[r].loc[1], buf)} :
          IF data = Nil THEN Done(r, AbsentField)
          ELSE Done(r, [exists |-> TRUE, data |-> data[1]])
    /\ UNCHANGED <<buf, mti, bitmap, cursors>>
    /\ ReaderFrame

\* HasField(fieldNum)
HasFieldRead(r) ==
    /\ Running(r, "HasField")
    /\ Done(r, HasField(bitmap, rd[r].arg))
    /\ UNCHANGED <<buf, mti, bitmap, cursors>>
    /\ ReaderFrame

\* PresentFields()
PresentFieldsRead(r) ==
    /\ Running(r, "PresentFields")
    /\ Done(r, MsgPresentFields(bitmap))
    /\ UNCHANGED <<buf, mti, bitmap, cursors>>
    /\ ReaderFrame

\* MTI()
MTIRead(r) ==
    /\ Running(r, "MTI")
    /\ Done(r, MTI(mti))
    /\ UNCHANGED <<buf, mti, bitmap, cursors>>
    /\ ReaderFrame

\* Bytes(): return m.buf
BytesRead(r) ==
    /\ Running(r, "Bytes")
    /\ Done(r, buf)
    /\ UNCHANGED <<buf, mti, bitmap, cursors>>
    /\ ReaderFrame

ReaderStep ==
    \E r \in ReaderIds :
        \/ ReaderCall(r)
        \/ FieldReadBitmap(r)
        \/ FieldReadCursor(r)
        \/ FieldExtract(r)
        \/ HasFieldRead(r)
        \/ PresentFieldsRead(r)
        \/ MTIRead(r)
        \/ BytesRead(r)

ReaderNext == Parse \/ ReaderStep

ReaderSpec == ReaderInit /\ [][ReaderNext]_vars

\* what the call returns when nothing else runs during it
AloneResult(op, arg) ==
    CASE op = "Field" -> Field(mspec, buf, mti, bitmap, cursors, arg)
      [] op = "HasField" -> HasField(bitmap, arg)
      [] op = "PresentFields" -> MsgPresentFields(bitmap)
      [] op = "MTI" -> MTI(mti)
      [] op = "Bytes" -> buf

\* C24: once Parse has returned, no step of any interleaving of concurrent
\* Field, HasField, PresentFields, MTI and Bytes calls changes the message's
\* buffer, mti, bitmap or cursor map, and every call that completes returns
\* what the same call returns when run alone on the parsed message.
C24_ReadersDoNotInterfere ==
    [][parseRes # NotCalled =>
          /\ UNCHANGED <<buf, mti, bitmap, cursors>>
          /\ \A r \in ReaderIds :
                rd'[r].pc = "done" =>
                    rd'[r].res = <<AloneResult(rd'[r].op, rd'[r].arg)>>]_vars

\* one reader has got field 2 while the other is between its reads of the
\* cursor map and of the buffer for the same field
C24_Witness ==
    /\ parseRes = Ok
    /\ rd[1].pc = "done" /\ rd[1].op = "Field" /\ rd[1].arg = 2
    /\ rd[1].res = <<[exists |-> TRUE, data |-> <<88>>]>>
    /\ rd[2].pc = "extract" /\ rd[2].op = "Field" /\ rd[2].arg = 2

====
